---- MODULE Spec2Model ----
(***************************************************************************)
(* Build-then-serve protocol of actix-web2: the aggregate factories        *)
(* (Router, App, Resource, FramedApp) resolve their route slots across     *)
(* polls into a dispatch service, which then offers each request to its    *)
(* routes in registration order; and the handler pipeline of one route.    *)
(***************************************************************************)
EXTENDS Integers, Sequences, FiniteSets, TLC

\* ---- bounds -------------------------------------------------------------
MaxRoutes == 2
NumRequests == 2
MaxFilters == 1
MaxChildren == 2
MaxTemplateLen == 2
MaxPathLen == 4
MaxBuilds == 2
MaxMiddleware == 2

\* ---- values -------------------------------------------------------------
Requests == 1..NumRequests
Subjects == {"Router", "App", "Resource", "FramedApp", "Route"}
NoService == [services |-> <<>>, default |-> "None", none |-> TRUE]

VARIABLES
    subject,      \* which object of the crate this run constructs and drives
    phase,        \* Declared, Building, Assembled, Failed, Panicked
    services,     \* Router.services / App.services / Resource.routes / FramedApp.services
    default,      \* Router.default / App.default
    defaults,     \* the default cells of the registered resources; `listed`: App.defaults holds it
    factory_ref,  \* App.factory_ref, the cell shared with AppEndpoint
    fut,          \* RouterFut.fut / CreateAppService.fut / CreateResourceService.fut / CreateService.fut
    fut_default,  \* RouterFut.default
    inner,        \* state of the boxed build future of each slot
    default_fut,  \* state of RouterFut.default_fut
    built,        \* the service the aggregate future resolved to
    poll_result,  \* what the last poll returned
    call,         \* the last request passed to call, who was offered it, who was invoked
    route,        \* the Route under test: how its handler was attached
    pipeline,     \* the request in flight through Extract and Handle
    filters,      \* App.filters, the Rc<Vec<Box<Filter>>> that AppService shares
    filter,       \* the filter under construction (filter.rs)
    checked,      \* the last check of `filter`: its request, result, children evaluated
    pattern,      \* the ResourcePattern under test (pattern.rs)
    matched,      \* the match applied to `pattern`: its path, plen and result
    app_state,    \* App.state, and the build of AppStateFactory.and_then(endpoint)
    framed_route, \* the FramedRoute under test and the last request it was handed
    errhandlers,  \* ErrorHandlers.handlers and the last call through the middleware
    boxed,        \* the boxed future a handler returned, as a Responder
    endpoint,     \* App.endpoint: how many middlewares wrap the AppEndpoint
    ready         \* the last poll_ready of an aggregate service and what its inner services answer

vars == <<subject, phase, services, default, defaults, factory_ref, fut,
          fut_default, inner, default_fut, built, poll_result, call,
          route, pipeline, filters, filter, checked, pattern, matched,
          app_state, framed_route, errhandlers, boxed, endpoint, ready>>

buildVars == <<fut, fut_default, inner, default_fut, built, poll_result>>
declVars == <<services, default, defaults, factory_ref>>
routeVars == <<route, pipeline>>
filterVars == <<filters, filter, checked>>
patternVars == <<pattern, matched>>
serviceVars ==
    <<app_state, framed_route, errhandlers, boxed, endpoint, ready>>
coreVars ==
    <<phase, declVars, buildVars, call, routeVars, filterVars, patternVars,
      endpoint, ready>>

\* Option<AppFactory>: None
NoFactory == [some |-> FALSE, services |-> <<>>]

NoCall == [req |-> 0, offered |-> <<>>, invoked |-> <<>>, responses |-> <<>>]
\* Result<Response, E>: Ok(response with a status), Err(actix Error whose
\* error_response() has a status), Err(())
Ok(status) == [ok |-> TRUE, status |-> status, err |-> "none"]
Err(status) == [ok |-> FALSE, status |-> status, err |-> "Error"]
ErrUnit == [ok |-> FALSE, status |-> 0, err |-> "unit"]
NoResult == [ok |-> FALSE, status |-> 0, err |-> "none"]
ErrorStatuses == {400, 500}
Results == {Ok(200)} \cup {Err(e) : e \in ErrorStatuses}

NoPipeline == [stage |-> "idle", extract |-> NoResult, handler |-> NoResult,
               handler_calls |-> 0, outcome |-> NoResult]

\* A factory as registered: `id` is its identity, `accepts` the requests its
\* service's handle (Router, FramedApp), filters (Resource) or ResourceDef (App)
\* accept.
Factory(id, acc) == [id |-> id, accepts |-> acc]

\* ---- futures ------------------------------------------------------------
\* Box<Future>::poll of a slot's build future
PollFuture(st) ==
    CASE st = "pending" -> "NotReady"
      [] st = "ready" -> "Ready"
      [] st = "failed" -> "Err"

\* new_service() of every registered factory: one item per factory, in order
NewItems(svcs) ==
    [i \in 1..Len(svcs) |-> [tag |-> "Future"] @@ svcs[i]]

\* the drain reaches no unreachable!(): every item is a Service
Drainable(f) == \A i \in 1..Len(f) : f[i].tag = "Service"

\* mutant: the drained services are collected back to front
Drain_reversed(f) ==
    [i \in 1..Len(f) |->
        [k \in DOMAIN f[Len(f) + 1 - i] \ {"tag"} |-> f[Len(f) + 1 - i][k]]]

\* fut.drain(..).map(...).collect()
Drain(f) ==
    [i \in 1..Len(f) |-> [k \in DOMAIN f[i] \ {"tag"} |-> f[i][k]]]

\* ---- filters (filter.rs) -------------------------------------------------
Methods == {"GET", "POST", "PUT", "DELETE", "HEAD"}
Hosts == {"www.rust-lang.org", "localhost"}
HeaderValues == {"chunked"}

\* A ServiceRequest as the filters see it: its method, its Host, and the value
\* of its transfer-encoding header ("none" when the header is absent)
ServiceRequests ==
    [method : Methods, host : Hosts, header : HeaderValues \cup {"none"}]
NoRequest == [method |-> "none", host |-> "none", header |-> "none"]

\* the filter structs; FnFilter is a Filter the user implemented, known by
\* the requests its check accepts
FnFilter(acc) == [kind |-> "Fn", accepts |-> acc]
MethodFilter(m) == [kind |-> "Method", method |-> m]
HeaderFilter(v) == [kind |-> "Header", value |-> v]
HostFilter(h) == [kind |-> "Host", host |-> h]
AnyFilter(ps) == [kind |-> "Any", children |-> ps]
AllFilter(ps) == [kind |-> "All", children |-> ps]
NotFilter(f) == [kind |-> "Not", children |-> <<f>>]
NoFilter == [kind |-> "None"]

LeafFilters ==
    {MethodFilter(m) : m \in Methods} \cup {HostFilter(h) : h \in Hosts}
        \cup {HeaderFilter(v) : v \in HeaderValues}

\* the outcome of a check: its result and the children it evaluated, in order
Checked(res, ev) == [result |-> res, evaluated |-> ev]
NoCheck == [req |-> NoRequest, result |-> FALSE, evaluated |-> <<>>, done |-> FALSE]

\* request.method() == self.0
MethodFilter_check(f, req) == Checked(req.method = f.method, <<>>)

\* req.headers().get(&self.0): Some(val) => val == self.1, None => false
HeaderFilter_check(f, req) ==
    Checked(IF req.header # "none" THEN req.header = f.value ELSE FALSE, <<>>)

\* the comparison with the connection's host is commented out: false
HostFilter_check(f, req) == Checked(FALSE, <<>>)

RECURSIVE Filter_check(_, _)
RECURSIVE AnyFilter_check(_, _, _, _)
RECURSIVE AllFilter_check_eager(_, _, _, _)
RECURSIVE AllFilter_check(_, _, _, _)

\* the loop of AnyFilter::check over self.0, from child i on
AnyFilter_check(ps, req, i, ev) ==
    IF i > Len(ps) THEN Checked(FALSE, ev)
    ELSE IF Filter_check(ps[i], req).result THEN Checked(TRUE, Append(ev, i))
    ELSE AnyFilter_check(ps, req, i + 1, Append(ev, i))

\* mutant: a failing child does not end the loop
AllFilter_check_eager(ps, req, i, ev) ==
    IF i > Len(ps) THEN Checked(\A j \in 1..Len(ps) : Filter_check(ps[j], req).result, ev)
    ELSE AllFilter_check_eager(ps, req, i + 1, Append(ev, i))

\* the loop of AllFilter::check over self.0, from child i on
AllFilter_check(ps, req, i, ev) ==
    IF i > Len(ps) THEN Checked(TRUE, ev)
    ELSE IF ~Filter_check(ps[i], req).result THEN Checked(FALSE, Append(ev, i))
    ELSE AllFilter_check(ps, req, i + 1, Append(ev, i))

\* !self.0.check(request)
NotFilter_check(f, req) ==
    Checked(~Filter_check(f.children[1], req).result, <<1>>)

\* Box<Filter>::check: the check of the struct behind the box
Filter_check(f, req) ==
    CASE f.kind = "Fn" -> Checked(req \in f.accepts, <<>>)
      [] f.kind = "Method" -> MethodFilter_check(f, req)
      [] f.kind = "Header" -> HeaderFilter_check(f, req)
      [] f.kind = "Host" -> HostFilter_check(f, req)
      [] f.kind = "Any" -> AnyFilter_check(f.children, req, 1, <<>>)
      [] f.kind = "All" -> AllFilter_check(f.children, req, 1, <<>>)
      [] f.kind = "Not" -> NotFilter_check(f, req)

\* ---- patterns (pattern.rs) -----------------------------------------------
\* the characters of a request path, and those a template's literals use
PathChars == {"/", "a", "b"}
TemplateChars == {"/", "a"}
DEFAULT_PATTERN == "[^/]+"
U16 == 65536

\* A template is a sequence of items: a literal character, a parameter
\* "{name}" (sub = "none") or "{name:sub}", or a '{' that nothing closes; a
\* parameter is named after its position, so that the names of a template
\* are distinct. The custom sub-patterns: ".*"; "(a)", with a capture group of
\* its own; "a)(a", no regular expression by itself, which parse_param's
\* format! splices into the valid (?P<name>a)(a); and "(", which leaves the
\* assembled expression invalid
Subs == {"none", ".*", "(a)", "a)(a", "("}
TemplateChar(c) == [kind |-> "char", c |-> c, name |-> 0, sub |-> "none"]
TemplateParam(n, sub) == [kind |-> "param", c |-> "", name |-> n, sub |-> sub]
TemplateOpen == [kind |-> "open", c |-> "{", name |-> 0, sub |-> "none"]
TemplateItems(i) ==
    {TemplateChar(c) : c \in TemplateChars}
        \cup {TemplateParam(i, sub) : sub \in Subs}
        \cup {TemplateOpen}
Templates ==
    UNION {{t \in [1..n -> UNION {TemplateItems(i) : i \in 1..n}] :
               \A i \in 1..n : t[i] \in TemplateItems(i)} : n \in 0..MaxTemplateLen}
Paths == UNION {[1..n -> PathChars] : n \in 0..MaxPathLen}

\* the path of a request is never empty: it is "/" at the least
RequestPaths == Paths \ {<<>>}

\* a request path of 65,536 bytes or more: LongPad bytes that a caller has
\* already matched (plen), then the few bytes still to match
LongPad == U16 - 1
LongPath(rest) ==
    [i \in 1..(LongPad + Len(rest)) |->
        IF i <= LongPad THEN "a" ELSE rest[i - LongPad]]
LongPaths == {LongPath(<<"b">>), LongPath(<<"/", "a">>)}

\* PatternElement::Str, PatternElement::Var
Str(s) == [kind |-> "Str", s |-> s, name |-> 0]
Var(n) == [kind |-> "Var", s |-> <<>>, name |-> n]

\* the pieces of the regular expression parse writes: escape(literal) and
\* (?P<name>sub)
Lit(s) == [kind |-> "lit", s |-> s, name |-> 0, sub |-> "none"]
Group(n, sub) == [kind |-> "group", s |-> <<>>, name |-> n, sub |-> sub]

NoPattern == [tp |-> "None", s |-> <<>>, re |-> <<>>, anchored |-> FALSE,
              names |-> <<>>, len |-> 0, elements |-> <<>>, pattern |-> <<>>]
NoMatch == [op |-> "none", path |-> <<>>, plen |-> 0, result |-> FALSE,
            params |-> <<>>, tail |-> 0, panic |-> FALSE]

\* with_prefix has panicked on the template `path`: no pattern exists
CompilePanic(path) ==
    [tp |-> "Panic", s |-> <<>>, re |-> <<>>, anchored |-> FALSE,
     names |-> <<>>, len |-> 0, elements |-> <<>>, pattern |-> path]

\* str::starts_with
starts_with(path, s) == Len(path) >= Len(s) /\ SubSeq(path, 1, Len(s)) = s

\* the characters the text of a sub-pattern is made of, and how few and how
\* many of them it takes
SubClass(sub) ==
    CASE sub = "[^/]+" -> PathChars \ {"/"}
      [] sub = ".*" -> PathChars
      [] OTHER -> {"a"}
SubMin(sub) ==
    CASE sub = "[^/]+" -> 1
      [] sub = ".*" -> 0
      [] sub = "(a)" -> 1
      [] OTHER -> 2
SubMax(sub, run) ==
    CASE sub = "(a)" -> IF run < 1 THEN run ELSE 1
      [] sub = "a)(a" -> IF run < 2 THEN run ELSE 2
      [] OTHER -> run

\* the capture groups of (?P<name>sub) when it takes n characters from
\* offset pos: the named group, then the groups the sub-pattern brings
SubCaptures(sub, pos, n) ==
    CASE sub = "(a)" -> <<[start |-> pos, end |-> pos + n],
                          [start |-> pos, end |-> pos + n]>>
      [] sub = "a)(a" -> <<[start |-> pos, end |-> pos + 1],
                           [start |-> pos + 1, end |-> pos + n]>>
      [] OTHER -> <<[start |-> pos, end |-> pos + n]>>

\* the longest run of characters of `class` in path from offset pos
MaxRun(path, pos, class) ==
    CHOOSE n \in 0..(Len(path) - pos) :
        /\ \A j \in 1..n : path[pos + j] \in class
        /\ n = Len(path) - pos \/ path[pos + n + 1] \notin class

RECURSIVE Regex_match(_, _, _, _, _, _)
RECURSIVE Regex_repeat(_, _, _, _, _, _, _)

\* Regex::captures from piece k of re on, at offset pos: the spans of the
\* groups matched so far are in `groups`; greedy, backtracking to shorter
\* repetitions
Regex_match(re, anchored, path, k, pos, groups) ==
    IF k > Len(re)
    THEN [some |-> (~anchored \/ pos = Len(path)), groups |-> groups, end |-> pos]
    ELSE IF re[k].kind = "lit"
    THEN IF starts_with(SubSeq(path, pos + 1, Len(path)), re[k].s)
         THEN Regex_match(re, anchored, path, k + 1, pos + Len(re[k].s), groups)
         ELSE [some |-> FALSE, groups |-> <<>>, end |-> 0]
    ELSE Regex_repeat(re, anchored, path, k, pos,
                      SubMax(re[k].sub, MaxRun(path, pos, SubClass(re[k].sub))),
                      groups)

\* the group re[k] takes n characters, or fewer when the rest does not match
Regex_repeat(re, anchored, path, k, pos, n, groups) ==
    IF n < SubMin(re[k].sub) THEN [some |-> FALSE, groups |-> <<>>, end |-> 0]
    ELSE LET r == Regex_match(re, anchored, path, k + 1, pos + n,
                              groups \o SubCaptures(re[k].sub, pos, n))
         IN IF r.some THEN r
            ELSE Regex_repeat(re, anchored, path, k, pos, n - 1, groups)

\* mutant: the expression is never anchored at its end
Regex_captures_open(re, anchored, path) == Regex_match(re, FALSE, path, 1, 0, <<>>)

\* Regex::captures(path) of "^" re ("$" when anchored)
Regex_captures(re, anchored, path) == Regex_match(re, anchored, path, 1, 0, <<>>)

\* Regex::new(&pattern) is Ok: every '(' of the expression is closed
Regex_new(re) == \A k \in 1..Len(re) : re[k].sub # "("

\* mutant: a parameter without a sub-pattern takes any characters
parse_param_any(item) ==
    [element |-> Var(item.name),
     re_part |-> Group(item.name, IF item.sub = "none" THEN ".*" ELSE item.sub)]

\* parse_param: the element and the group of "{name}" or "{name:sub}"
parse_param(item) ==
    [element |-> Var(item.name),
     re_part |-> Group(item.name,
                       IF item.sub = "none" THEN DEFAULT_PATTERN ELSE item.sub)]

\* the characters of a template without parameters
Literal(t) == [i \in 1..Len(t) |-> t[i].c]

\* the while loop of parse from item i on: `prefix` is the literal read since
\* the last parameter; parse_param's expect("malformed param") panics at a
\* '{' that nothing closes
RECURSIVE parse_items(_, _, _, _, _)
parse_items(t, i, prefix, re, elems) ==
    IF i > Len(t)
    THEN [re |-> Append(re, Lit(prefix)), elements |-> Append(elems, Str(prefix)),
          len |-> Len(prefix), panic |-> FALSE]
    ELSE IF t[i].kind = "char"
    THEN parse_items(t, i + 1, Append(prefix, t[i].c), re, elems)
    ELSE IF t[i].kind = "open"
    THEN [re |-> <<>>, elements |-> <<>>, len |-> 0, panic |-> TRUE]
    ELSE LET pp == parse_param(t[i])
         IN parse_items(t, i + 1, <<>>, re \o <<Lit(prefix), pp.re_part>>,
                        elems \o <<Str(prefix), pp.element>>)

\* ResourcePattern::parse
parse(t, for_prefix) ==
    IF \A i \in 1..Len(t) : t[i].kind = "char"
    THEN [s |-> Literal(t), re |-> <<>>, anchored |-> FALSE,
          elements |-> <<Str(Literal(t))>>, is_dynamic |-> FALSE, len |-> Len(t),
          panic |-> FALSE]
    ELSE LET r == parse_items(t, 1, <<>>, <<>>, <<>>)
         IN [s |-> <<>>, re |-> r.re, anchored |-> ~for_prefix,
             elements |-> r.elements, is_dynamic |-> TRUE, len |-> r.len,
             panic |-> r.panic]

\* ResourcePattern::with_prefix: panics where parse panics and where
\* Regex::new answers Err
with_prefix(t, for_prefix, slash) ==
    LET path == IF slash /\ ~(Len(t) >= 1 /\ t[1] = TemplateChar("/"))
                THEN <<TemplateChar("/")>> \o t ELSE t
        p == parse(path, for_prefix)
    IN IF p.panic \/ (p.is_dynamic /\ ~Regex_new(p.re)) THEN CompilePanic(path)
       ELSE
       [tp |-> IF p.is_dynamic THEN "Dynamic"
               ELSE IF for_prefix THEN "Prefix" ELSE "Static",
        s |-> p.s, re |-> p.re, anchored |-> p.anchored,
        names |-> [i \in 1..Len(SelectSeq(p.re, LAMBDA x : x.kind = "group")) |->
                      SelectSeq(p.re, LAMBDA x : x.kind = "group")[i].name],
        len |-> p.len, elements |-> p.elements, pattern |-> path]

\* Option<Params>: None, and Some(params) with the tail set; Panic when the
\* call aborts instead of returning
None == [result |-> FALSE, params |-> <<>>, tail |-> 0, panic |-> FALSE]
Some(params, tail) ==
    [result |-> TRUE, params |-> params, tail |-> tail, panic |-> FALSE]
Panic == [result |-> FALSE, params |-> <<>>, tail |-> 0, panic |-> TRUE]

\* mutant: the Static arm accepts every path that starts with s
is_match_Static_prefix(pat, path) == starts_with(path, pat.s)

\* PatternType::Static(ref s) => s == path
is_match_Static(pat, path) == pat.s = path

\* PatternType::Dynamic(ref re, _, _) => re.is_match(path)
is_match_Dynamic(pat, path) == Regex_captures(pat.re, pat.anchored, path).some

\* mutant: the Prefix arm asks for a '/' after the literal
is_match_Prefix_boundary(pat, path) ==
    \/ path = pat.s
    \/ /\ starts_with(path, pat.s)
       /\ \/ (Len(pat.s) >= 1 /\ pat.s[Len(pat.s)] = "/")
          \/ path[Len(pat.s) + 1] = "/"

\* PatternType::Prefix(ref s) => path.starts_with(s)
is_match_Prefix(pat, path) == starts_with(path, pat.s)

\* ResourcePattern::is_match
ResourcePattern_is_match(pat, path) ==
    CASE pat.tp = "Static" -> is_match_Static(pat, path)
      [] pat.tp = "Dynamic" -> is_match_Dynamic(pat, path)
      [] pat.tp = "Prefix" -> is_match_Prefix(pat, path)

\* mutant: the spans are those within the sliced path
match_with_params_Dynamic_sliced(pat, path, plen) ==
    LET c == Regex_captures(pat.re, pat.anchored, SubSeq(path, plen + 1, Len(path)))
    IN IF c.some /\ Len(c.groups) > Len(pat.names) THEN Panic
       ELSE IF c.some
       THEN Some([i \in 1..Len(c.groups) |->
                     [name |-> pat.names[i],
                      start |-> c.groups[i].start % U16,
                      end |-> c.groups[i].end % U16]],
                 Len(path) % U16)
       ELSE None

\* the Dynamic arm of match_with_params: one parameter per capture group after
\* the whole match, its span counted from the start of the unsliced path;
\* names[idx] is out of bounds at a group that has no name
match_with_params_Dynamic(pat, path, plen) ==
    LET c == Regex_captures(pat.re, pat.anchored, SubSeq(path, plen + 1, Len(path)))
    IN IF c.some /\ Len(c.groups) > Len(pat.names) THEN Panic
       ELSE IF c.some
       THEN Some([i \in 1..Len(c.groups) |->
                     [name |-> pat.names[i],
                      start |-> (plen + c.groups[i].start) % U16,
                      end |-> (plen + c.groups[i].end) % U16]],
                 Len(path) % U16)
       ELSE None

\* ResourcePattern::match_with_params on &req.path()[plen..]; the slice
\* panics when plen is beyond the end of the path
ResourcePattern_match_with_params(pat, path, plen) ==
    IF plen > Len(path) THEN Panic ELSE
    CASE pat.tp = "Static" ->
            IF pat.s # SubSeq(path, plen + 1, Len(path)) THEN None ELSE Some(<<>>, 0)
      [] pat.tp = "Dynamic" -> match_with_params_Dynamic(pat, path, plen)
      [] pat.tp = "Prefix" ->
            IF ~starts_with(SubSeq(path, plen + 1, Len(path)), pat.s)
            THEN None ELSE Some(<<>>, 0)

\* str::ends_with('/') and min
ends_with_slash(s) == Len(s) >= 1 /\ s[Len(s)] = "/"
min(a, b) == IF a < b THEN a ELSE b

\* let path = if path.is_empty() { "/" } else { path }
OrSlash(path) == IF path = <<>> THEN <<"/">> ELSE path

\* the Static arm of match_prefix_with_params: the tail is the end of the path
match_prefix_with_params_Static(pat, path, plen) ==
    IF pat.s = OrSlash(SubSeq(path, plen + 1, Len(path)))
    THEN Some(<<>>, Len(path) % U16)
    ELSE None

\* the Dynamic arm of match_prefix_with_params: the parameters as in
\* match_with_params, the tail at plen + pos + len, pos the end of the last
\* capture group and len the length of the literal after the last parameter
match_prefix_with_params_Dynamic(pat, path, plen) ==
    LET c == Regex_captures(pat.re, pat.anchored,
                            OrSlash(SubSeq(path, plen + 1, Len(path))))
    IN IF c.some /\ Len(c.groups) > Len(pat.names) THEN Panic
       ELSE IF c.some
       THEN Some([i \in 1..Len(c.groups) |->
                     [name |-> pat.names[i],
                      start |-> (plen + c.groups[i].start) % U16,
                      end |-> (plen + c.groups[i].end) % U16]],
                 (plen + c.groups[Len(c.groups)].end + pat.len) % U16)
       ELSE None

\* mutant: the tail is always put after the whole literal
match_prefix_with_params_Prefix_whole(pat, path, plen) ==
    LET rest == OrSlash(SubSeq(path, plen + 1, Len(path)))
    IN IF rest = pat.s
       THEN Some(<<>>, min(Len(path), plen + Len(pat.s)) % U16)
       ELSE IF /\ starts_with(rest, pat.s)
               /\ (ends_with_slash(pat.s) \/ rest[Len(pat.s) + 1] = "/")
       THEN Some(<<>>, min(Len(path), plen + Len(pat.s)) % U16)
       ELSE None

\* the Prefix arm of match_prefix_with_params: the literal, then the end of
\* the path or a '/'; the tail keeps the '/' that ends the literal
match_prefix_with_params_Prefix(pat, path, plen) ==
    LET rest == OrSlash(SubSeq(path, plen + 1, Len(path)))
    IN IF rest = pat.s
       THEN Some(<<>>, min(Len(path), plen + Len(pat.s)) % U16)
       ELSE IF /\ starts_with(rest, pat.s)
               /\ (ends_with_slash(pat.s) \/ rest[Len(pat.s) + 1] = "/")
       THEN Some(<<>>, min(Len(path),
                           plen + (IF ends_with_slash(pat.s) THEN Len(pat.s) - 1
                                   ELSE Len(pat.s))) % U16)
       ELSE None

\* ResourcePattern::match_prefix_with_params on &req.path()[plen..]; the slice
\* panics when plen is beyond the end of the path
ResourcePattern_match_prefix_with_params(pat, path, plen) ==
    IF plen > Len(path) THEN Panic ELSE
    CASE pat.tp = "Static" -> match_prefix_with_params_Static(pat, path, plen)
      [] pat.tp = "Dynamic" -> match_prefix_with_params_Dynamic(pat, path, plen)
      [] pat.tp = "Prefix" -> match_prefix_with_params_Prefix(pat, path, plen)

\* ---- application state (state.rs, app.rs) -------------------------------
\* App.state is AppState::St (with_state, new) or AppState::Fn
\* (with_state_factory); `builds` counts the calls of new_service and
\* `constructs` those of StateFactory::construct; `fut` is the future
\* construct returned, `service` whether an AppStateService exists, `endpoint`
\* the endpoint's build, `build` what the AndThenNewService future answered
\* last, `converted` the requests AppStateService::call converted
NoAppState ==
    [kind |-> "None", builds |-> 0, constructs |-> 0, fut |-> "none",
     service |-> FALSE, endpoint |-> "none", build |-> "none", converted |-> 0]

\* mutant: a failed constructor is taken for a state
AppStateFuture_poll_lenient(f) ==
    CASE f = "pending" -> "NotReady"
      [] f = "ok" -> "Ready"
      [] f = "err" -> "Ready"

\* the future AppStateFactory::new_service returns: ok(AppStateService) for
\* St; for Fn f.construct().and_then(..), which is Err(()) when the
\* constructor failed and never runs the closure that makes the service
AppStateFuture_poll(f) ==
    CASE f = "pending" -> "NotReady"
      [] f = "ok" -> "Ready"
      [] f = "err" -> "Err"

\* ---- FramedRoute (framed_route.rs) --------------------------------------
FramedTemplates ==
    {<<TemplateChar("/"), TemplateChar("a")>>, <<TemplateParam(1, "none")>>}
FramedPaths == {<<"/", "a">>, <<"/", "b">>, <<"/", "a", "/", "b">>}
FramedRequests ==
    [method : Methods, header : HeaderValues \cup {"none"}, path : FramedPaths]
NoFramedRequest == [method |-> "none", header |-> "none", path |-> <<>>]
NoHandle == [done |-> FALSE, req |-> NoFramedRequest, ok |-> FALSE,
             panic |-> FALSE]
NoFramedRoute ==
    [some |-> FALSE, pattern |-> NoPattern, methods |-> <<>>, headers |-> <<>>,
     handled |-> NoHandle]

\* FramedRoutePatternBuilder::new(path), then .method(..) for each of ms
FramedRoutePatternBuilder(t, ms) ==
    [some |-> TRUE, pattern |-> with_prefix(t, FALSE, Len(t) # 0),
     methods |-> ms, headers |-> <<>>, handled |-> NoHandle]

\* self.methods.contains(req.method())
contains(ms, m) == \E i \in 1..Len(ms) : ms[i] = m

\* FramedRouteService::handle: Ok(future) or Err(request)
FramedRouteService_handle_result(r, req) ==
    IF Len(r.methods) = 0 \/ (Len(r.methods) # 0 /\ contains(r.methods, req.method))
    THEN LET m == ResourcePattern_match_with_params(r.pattern, req.path, 0)
         IN [done |-> TRUE, req |-> req, ok |-> m.result, panic |-> m.panic]
    ELSE [done |-> TRUE, req |-> req, ok |-> FALSE, panic |-> FALSE]

\* ---- ErrorHandlers (middleware/errhandlers.rs) --------------------------
ResponseStatuses == {200} \cup ErrorStatuses
NoMwCall == [done |-> FALSE, status |-> 0, panic |-> FALSE, by |-> "none",
             response |-> 0]
NoErrorHandlers == [handlers |-> {}, call |-> NoMwCall]

\* Transform::call: the closure that looks the handler up is given to map and
\* its result dropped; the function then reaches unimplemented!()
ErrorHandlers_call_result(h, status) ==
    [done |-> TRUE, status |-> status, panic |-> TRUE, by |-> "none",
     response |-> 0]

\* ---- Responder for Box<Future> (responder.rs) ---------------------------
\* what the boxed future resolves to: Ok(r) with r a Responder (here a
\* Result), or Err(e)
BoxOk(r) == [ok |-> TRUE, value |-> r, status |-> 0]
BoxErr(e) == [ok |-> FALSE, value |-> NoResult, status |-> e]
BoxResults == {BoxOk(r) : r \in Results} \cup {BoxErr(e) : e \in ErrorStatuses}
NoBoxed == [stage |-> "idle", result |-> BoxErr(0), last_poll |-> "None",
            responder_runs |-> 0, outcome |-> NoResult]

\* ---- poll_ready of the aggregate services (router.rs, resource.rs, app.rs)
\* what each inner service, and the default service, answers to poll_ready now
Readiness == {"Ready", "NotReady", "Err"}
InnerAnswers == UNION {[1..n -> Readiness] : n \in 0..MaxRoutes}
NoPollReady == [of |-> "none", inner |-> <<>>, default |-> "Ready",
                answer |-> "none"]

\* RouterService::poll_ready: the loop over self.services; self.default is
\* not asked; the ? returns the first error
RouterService_poll_ready_result(ans, dflt) ==
    IF \E i \in 1..Len(ans) : ans[i] = "Err" THEN "Err"
    ELSE IF \A i \in 1..Len(ans) : ans[i] = "Ready" THEN "Ready"
    ELSE "NotReady"

\* ResourceService::poll_ready: Ok(Async::Ready(()))
ResourceService_poll_ready_result(ans) == "Ready"

\* AppService::poll_ready: Ready when self.ready is None, which is what
\* CreateAppService::poll sets and nothing changes
AppService_poll_ready_result(ans) == "Ready"

\* ---- the state after construction ---------------------------------------
\* nothing registered, nothing built, nothing called
New ==
    /\ phase = "Declared"
    /\ services = <<>>
    /\ default = IF subject = "Router" THEN "not_found" ELSE "None"
    /\ defaults = <<>>
    /\ factory_ref = NoFactory
    /\ fut = <<>>
    /\ fut_default = "None"
    /\ inner = <<>>
    /\ default_fut = "none"
    /\ built = NoService
    /\ poll_result = "None"
    /\ call = NoCall
    /\ route = "None"
    /\ pipeline = NoPipeline
    /\ filters = <<>>
    /\ filter = NoFilter
    /\ checked = NoCheck
    /\ pattern = NoPattern
    /\ matched = NoMatch
    /\ app_state = NoAppState
    /\ framed_route = NoFramedRoute
    /\ errhandlers = NoErrorHandlers
    /\ boxed = NoBoxed
    /\ endpoint = 0
    /\ ready = NoPollReady

Init ==
    /\ subject \in Subjects
    /\ New

\* ---- the build futures resolve on their own -----------------------------
FutureResolve(i) ==
    /\ phase = "Building"
    /\ i \in 1..Len(inner)
    /\ inner[i] = "pending"
    /\ inner' = [inner EXCEPT ![i] = "ready"]
    /\ UNCHANGED <<subject, serviceVars, patternVars, filterVars, phase, declVars, fut, fut_default, default_fut,
                   built, poll_result, call, routeVars>>

FutureFail(i) ==
    /\ phase = "Building"
    /\ i \in 1..Len(inner)
    /\ inner[i] = "pending"
    /\ inner' = [inner EXCEPT ![i] = "failed"]
    /\ UNCHANGED <<subject, serviceVars, patternVars, filterVars, phase, declVars, fut, fut_default, default_fut,
                   built, poll_result, call, routeVars>>

DefaultResolve ==
    /\ phase = "Building"
    /\ default_fut = "pending"
    /\ default_fut' = "ready"
    /\ UNCHANGED <<subject, serviceVars, patternVars, filterVars, phase, declVars, fut, fut_default, inner,
                   built, poll_result, call, routeVars>>

DefaultFail ==
    /\ phase = "Building"
    /\ default_fut = "pending"
    /\ default_fut' = "failed"
    /\ UNCHANGED <<subject, serviceVars, patternVars, filterVars, phase, declVars, fut, fut_default, inner,
                   built, poll_result, call, routeVars>>

\* ---- Router (router.rs) -------------------------------------------------
Router_service(acc) ==
    /\ subject = "Router"
    /\ phase = "Declared"
    /\ Len(services) < MaxRoutes
    /\ services' = Append(services, Factory(Len(services) + 1, acc))
    /\ UNCHANGED <<subject, serviceVars, patternVars, filterVars, phase, default, defaults, factory_ref, buildVars,
                   call, routeVars>>

Router_default_service ==
    /\ subject = "Router"
    /\ phase = "Declared"
    /\ default' = "custom"
    /\ UNCHANGED <<subject, serviceVars, patternVars, filterVars, phase, services, defaults, factory_ref, buildVars,
                   call, routeVars>>

Router_new_service ==
    /\ subject = "Router"
    /\ phase = "Declared"
    /\ phase' = "Building"
    /\ fut' = NewItems(services)
    /\ inner' = [i \in 1..Len(services) |-> "pending"]
    /\ fut_default' = "None"
    /\ default_fut' = "pending"
    /\ UNCHANGED <<subject, serviceVars, patternVars, filterVars, declVars, built, poll_result, call, routeVars>>

\* fut.poll() of item i is one more poll in the result of the loop
PolledItem(i, r) == [r EXCEPT !.polled = <<i>> \o @]

\* mutant: a NotReady slot leaves `done` as it was
RECURSIVE RouterFut_poll_items_keepdone(_, _, _, _)
RouterFut_poll_items_keepdone(f, st, i, done) ==
    IF i > Len(f) THEN [fut |-> f, done |-> done, err |-> FALSE, polled |-> <<>>]
    ELSE IF f[i].tag = "Service"
    THEN RouterFut_poll_items_keepdone(f, st, i + 1, done)
    ELSE CASE PollFuture(st[i]) = "Err" ->
                [fut |-> f, done |-> done, err |-> TRUE, polled |-> <<i>>]
           [] PollFuture(st[i]) = "Ready" ->
                PolledItem(i, RouterFut_poll_items_keepdone([f EXCEPT ![i].tag = "Service"],
                                              st, i + 1, done))
           [] PollFuture(st[i]) = "NotReady" ->
                PolledItem(i, RouterFut_poll_items_keepdone(f, st, i + 1, done))

\* the loop of RouterFut::poll over self.fut, from item i on
RECURSIVE RouterFut_poll_items(_, _, _, _)
RouterFut_poll_items(f, st, i, done) ==
    IF i > Len(f) THEN [fut |-> f, done |-> done, err |-> FALSE, polled |-> <<>>]
    ELSE IF f[i].tag = "Service" THEN RouterFut_poll_items(f, st, i + 1, done)
    ELSE CASE PollFuture(st[i]) = "Err" ->
                [fut |-> f, done |-> done, err |-> TRUE, polled |-> <<i>>]
           [] PollFuture(st[i]) = "Ready" ->
                PolledItem(i, RouterFut_poll_items([f EXCEPT ![i].tag = "Service"], st, i + 1, done))
           [] PollFuture(st[i]) = "NotReady" ->
                PolledItem(i, RouterFut_poll_items(f, st, i + 1, FALSE))

RouterFut_poll ==
    /\ subject = "Router"
    /\ phase = "Building"
    /\ LET dpoll == IF fut_default = "None" THEN PollFuture(default_fut) ELSE "Skip"
       IN IF dpoll = "Err"
          THEN /\ poll_result' = "Err"
               /\ phase' = "Failed"
               /\ UNCHANGED <<fut, fut_default, built>>
          ELSE LET dflt == IF dpoll = "Ready" THEN default ELSE fut_default
                   r == RouterFut_poll_items(fut, inner, 1, dpoll # "NotReady")
               IN IF r.err
                  THEN /\ poll_result' = "Err"
                       /\ phase' = "Failed"
                       /\ fut' = r.fut
                       /\ fut_default' = dflt
                       /\ UNCHANGED built
                  ELSE IF r.done /\ (~Drainable(r.fut) \/ dflt = "None")
                  THEN /\ poll_result' = "Panic"
                       /\ phase' = "Panicked"
                       /\ fut' = r.fut
                       /\ fut_default' = dflt
                       /\ UNCHANGED built
                  ELSE IF r.done
                  THEN /\ poll_result' = "Ready"
                       /\ phase' = "Assembled"
                       /\ fut' = <<>>
                       /\ fut_default' = "None"
                       /\ built' = [services |-> Drain(r.fut), default |-> dflt,
                                    none |-> FALSE]
                  ELSE /\ poll_result' = "NotReady"
                       /\ fut' = r.fut
                       /\ fut_default' = dflt
                       /\ UNCHANGED <<phase, built>>
    /\ UNCHANGED <<subject, serviceVars, patternVars, filterVars, declVars, inner, default_fut, call, routeVars>>

\* mutant: a service that declines hands back another request
handle_other(svc, req) ==
    IF req \in svc.accepts
    THEN [ok |-> TRUE, req |-> req]
    ELSE [ok |-> FALSE, req |-> (req % NumRequests) + 1]

\* HttpService::handle of a route service: Ok(future) when the service takes
\* the request, Err(req) handing the request back when it declines
handle(svc, req) ==
    IF req \in svc.accepts
    THEN [ok |-> TRUE, req |-> req]
    ELSE [ok |-> FALSE, req |-> req]

RouteTarget(id) == [kind |-> "route", id |-> id]
DefaultTarget == [kind |-> "default", id |-> 0]
BuiltinTarget == [kind |-> "builtin", id |-> 0]
Response(by, status) == [by |-> by, status |-> status]

\* mutant: the registered default service is ignored
DefaultService_call_not_found(dflt, req) ==
    Response([kind |-> "not_found", id |-> 0], 404)

\* fn not_found and the service given to Router::default_service
DefaultService_call(dflt, req) ==
    IF dflt = "not_found"
    THEN Response([kind |-> "not_found", id |-> 0], 404)
    ELSE Response([kind |-> "custom", id |-> 0], 200)

\* mutant: the loop does not return on Ok: every accepting route is invoked,
\* and the default service after them
RECURSIVE RouterService_call_items_noreturn(_, _, _, _)
RouterService_call_items_noreturn(svc, req, i, offered) ==
    IF i > Len(svc.services)
    THEN [req |-> req, offered |-> offered, invoked |-> <<DefaultTarget>>,
          responses |-> <<DefaultService_call(svc.default, req)>>]
    ELSE LET h == handle(svc.services[i], req)
             off == Append(offered, svc.services[i].id)
             rest == RouterService_call_items_noreturn(svc, req, i + 1, off)
         IN IF h.ok
            THEN [rest EXCEPT
                    !.invoked = <<RouteTarget(svc.services[i].id)>> \o @,
                    !.responses = <<Response(RouteTarget(svc.services[i].id), 200)>> \o @]
            ELSE rest

\* the loop of RouterService::call over self.services, from item i on
RECURSIVE RouterService_call_items(_, _, _, _)
RouterService_call_items(svc, req, i, offered) ==
    IF i > Len(svc.services)
    THEN [req |-> req, offered |-> offered, invoked |-> <<DefaultTarget>>,
          responses |-> <<DefaultService_call(svc.default, req)>>]
    ELSE LET h == handle(svc.services[i], req)
             off == Append(offered, svc.services[i].id)
         IN IF h.ok
            THEN [req |-> req, offered |-> off,
                  invoked |-> <<RouteTarget(svc.services[i].id)>>,
                  responses |-> <<Response(RouteTarget(svc.services[i].id), 200)>>]
            ELSE RouterService_call_items(svc, h.req, i + 1, off)

RouterService_call(req) ==
    /\ subject = "Router"
    /\ phase = "Assembled"
    /\ call' = RouterService_call_items(built, req, 1, <<>>)
    /\ UNCHANGED <<subject, serviceVars, patternVars, filterVars, phase, declVars, buildVars, routeVars>>

\* ---- FramedApp (framed_app.rs) ------------------------------------------
FramedApp_service(acc) ==
    /\ subject = "FramedApp"
    /\ phase = "Declared"
    /\ Len(services) < MaxRoutes
    /\ services' = Append(services, Factory(Len(services) + 1, acc))
    /\ UNCHANGED <<subject, serviceVars, patternVars, filterVars, phase, default, defaults, factory_ref, buildVars,
                   call, routeVars>>

FramedAppFactory_new_service ==
    /\ subject = "FramedApp"
    /\ phase = "Declared"
    /\ phase' = "Building"
    /\ fut' = NewItems(services)
    /\ inner' = [i \in 1..Len(services) |-> "pending"]
    /\ UNCHANGED <<subject, serviceVars, patternVars, filterVars, declVars, fut_default, default_fut, built,
                   poll_result, call, routeVars>>

\* mutant: a slot that is already a Service is polled again
RECURSIVE CreateService_poll_items_repoll(_, _, _, _)
CreateService_poll_items_repoll(f, st, i, done) ==
    IF i > Len(f) THEN [fut |-> f, done |-> done, err |-> FALSE, polled |-> <<>>]
    ELSE IF f[i].tag = "Service"
    THEN PolledItem(i, CreateService_poll_items_repoll(f, st, i + 1, done))
    ELSE CASE PollFuture(st[i]) = "Err" ->
                [fut |-> f, done |-> done, err |-> TRUE, polled |-> <<i>>]
           [] PollFuture(st[i]) = "Ready" ->
                PolledItem(i, CreateService_poll_items_repoll(
                              [f EXCEPT ![i].tag = "Service"], st, i + 1, done))
           [] PollFuture(st[i]) = "NotReady" ->
                PolledItem(i, CreateService_poll_items_repoll(f, st, i + 1, FALSE))

\* the loop of CreateService::poll over self.fut, from item i on
RECURSIVE CreateService_poll_items(_, _, _, _)
CreateService_poll_items(f, st, i, done) ==
    IF i > Len(f) THEN [fut |-> f, done |-> done, err |-> FALSE, polled |-> <<>>]
    ELSE IF f[i].tag = "Service" THEN CreateService_poll_items(f, st, i + 1, done)
    ELSE CASE PollFuture(st[i]) = "Err" ->
                [fut |-> f, done |-> done, err |-> TRUE, polled |-> <<i>>]
           [] PollFuture(st[i]) = "Ready" ->
                PolledItem(i, CreateService_poll_items([f EXCEPT ![i].tag = "Service"], st, i + 1, done))
           [] PollFuture(st[i]) = "NotReady" ->
                PolledItem(i, CreateService_poll_items(f, st, i + 1, FALSE))

CreateService_poll ==
    /\ subject = "FramedApp"
    /\ phase = "Building"
    /\ LET r == CreateService_poll_items(fut, inner, 1, TRUE)
       IN IF r.err
          THEN /\ poll_result' = "Err"
               /\ phase' = "Failed"
               /\ fut' = r.fut
               /\ UNCHANGED built
          ELSE IF r.done /\ ~Drainable(r.fut)
          THEN /\ poll_result' = "Panic"
               /\ phase' = "Panicked"
               /\ fut' = r.fut
               /\ UNCHANGED built
          ELSE IF r.done
          THEN /\ poll_result' = "Ready"
               /\ phase' = "Assembled"
               /\ fut' = <<>>
               /\ built' = [services |-> Drain(r.fut), default |-> "None",
                            none |-> FALSE]
          ELSE /\ poll_result' = "NotReady"
               /\ fut' = r.fut
               /\ UNCHANGED <<phase, built>>
    /\ UNCHANGED <<subject, serviceVars, patternVars, filterVars, declVars, fut_default, inner, default_fut, call,
                   routeVars>>

\* mutant: the routes are offered the request last to first
RECURSIVE FramedAppService_call_items_backwards(_, _, _, _)
FramedAppService_call_items_backwards(svc, req, i, offered) ==
    IF i > Len(svc.services)
    THEN [req |-> req, offered |-> offered, invoked |-> <<BuiltinTarget>>,
          responses |-> <<Response(BuiltinTarget, 404)>>]
    ELSE LET s == svc.services[Len(svc.services) + 1 - i]
             h == handle(s, req)
             off == Append(offered, s.id)
         IN IF h.ok
            THEN [req |-> req, offered |-> off,
                  invoked |-> <<RouteTarget(s.id)>>,
                  responses |-> <<Response(RouteTarget(s.id), 200)>>]
            ELSE FramedAppService_call_items_backwards(svc, h.req, i + 1, off)

\* the loop of FramedAppService::call over self.services, from item i on
RECURSIVE FramedAppService_call_items(_, _, _, _)
FramedAppService_call_items(svc, req, i, offered) ==
    IF i > Len(svc.services)
    THEN [req |-> req, offered |-> offered, invoked |-> <<BuiltinTarget>>,
          responses |-> <<Response(BuiltinTarget, 404)>>]
    ELSE LET h == handle(svc.services[i], req)
             off == Append(offered, svc.services[i].id)
         IN IF h.ok
            THEN [req |-> req, offered |-> off,
                  invoked |-> <<RouteTarget(svc.services[i].id)>>,
                  responses |-> <<Response(RouteTarget(svc.services[i].id), 200)>>]
            ELSE FramedAppService_call_items(svc, h.req, i + 1, off)

FramedAppService_call(req) ==
    /\ subject = "FramedApp"
    /\ phase = "Assembled"
    /\ call' = FramedAppService_call_items(built, req, 1, <<>>)
    /\ UNCHANGED <<subject, serviceVars, patternVars, filterVars, phase, declVars, buildVars, routeVars>>

\* ---- Resource (resource.rs) ---------------------------------------------
\* A Route as a ResourceBuilder registers it: `via` is the builder method
\* used, `filters` the route's filters in the order they were pushed
RouteOf(id, via, fs) == [id |-> id, via |-> via, filters |-> fs]

\* the filters the closure handed to a builder method may attach with
\* RouteBuilder::filter
RouteExtras == {<<>>} \cup {<<HeaderFilter(v)>> : v \in HeaderValues}

\* self.routes.push(f(Route::build())): `fs` are the filters the closure attached
ResourceBuilder_route(fs) ==
    /\ subject = "Resource"
    /\ phase = "Declared"
    /\ Len(services) < MaxRoutes
    /\ services' = Append(services, RouteOf(Len(services) + 1, "route", fs))
    /\ UNCHANGED <<subject, serviceVars, patternVars, filterVars, phase, default, defaults, factory_ref, buildVars,
                   call, routeVars>>

\* self.routes.push(f(Route::get()))
ResourceBuilder_get(fs) ==
    /\ subject = "Resource"
    /\ phase = "Declared"
    /\ Len(services) < MaxRoutes
    /\ services' = Append(services,
            RouteOf(Len(services) + 1, "get", <<MethodFilter("GET")>> \o fs))
    /\ UNCHANGED <<subject, serviceVars, patternVars, filterVars, phase, default, defaults, factory_ref, buildVars,
                   call, routeVars>>

\* self.routes.push(f(Route::get())), in ResourceBuilder::post
ResourceBuilder_post(fs) ==
    /\ subject = "Resource"
    /\ phase = "Declared"
    /\ Len(services) < MaxRoutes
    /\ services' = Append(services,
            RouteOf(Len(services) + 1, "post", <<MethodFilter("GET")>> \o fs))
    /\ UNCHANGED <<subject, serviceVars, patternVars, filterVars, phase, default, defaults, factory_ref, buildVars,
                   call, routeVars>>

\* self.routes.push(f(Route::get())), in ResourceBuilder::put
ResourceBuilder_put(fs) ==
    /\ subject = "Resource"
    /\ phase = "Declared"
    /\ Len(services) < MaxRoutes
    /\ services' = Append(services,
            RouteOf(Len(services) + 1, "put", <<MethodFilter("GET")>> \o fs))
    /\ UNCHANGED <<subject, serviceVars, patternVars, filterVars, phase, default, defaults, factory_ref, buildVars,
                   call, routeVars>>

\* self.routes.push(f(Route::get())), in ResourceBuilder::delete
ResourceBuilder_delete(fs) ==
    /\ subject = "Resource"
    /\ phase = "Declared"
    /\ Len(services) < MaxRoutes
    /\ services' = Append(services,
            RouteOf(Len(services) + 1, "delete", <<MethodFilter("GET")>> \o fs))
    /\ UNCHANGED <<subject, serviceVars, patternVars, filterVars, phase, default, defaults, factory_ref, buildVars,
                   call, routeVars>>

\* self.routes.push(f(Route::get())), in ResourceBuilder::head
ResourceBuilder_head(fs) ==
    /\ subject = "Resource"
    /\ phase = "Declared"
    /\ Len(services) < MaxRoutes
    /\ services' = Append(services,
            RouteOf(Len(services) + 1, "head", <<MethodFilter("GET")>> \o fs))
    /\ UNCHANGED <<subject, serviceVars, patternVars, filterVars, phase, default, defaults, factory_ref, buildVars,
                   call, routeVars>>

\* self.routes.push(f(Route::build().method(method)))
ResourceBuilder_method(m, fs) ==
    /\ subject = "Resource"
    /\ phase = "Declared"
    /\ Len(services) < MaxRoutes
    /\ services' = Append(services,
            RouteOf(Len(services) + 1, "method", <<MethodFilter(m)>> \o fs))
    /\ UNCHANGED <<subject, serviceVars, patternVars, filterVars, phase, default, defaults, factory_ref, buildVars,
                   call, routeVars>>

Resource_new_service ==
    /\ subject = "Resource"
    /\ phase = "Declared"
    /\ phase' = "Building"
    /\ fut' = NewItems(services)
    /\ inner' = [i \in 1..Len(services) |-> "pending"]
    /\ UNCHANGED <<subject, serviceVars, patternVars, filterVars, declVars, fut_default, default_fut, built,
                   poll_result, call, routeVars>>

\* mutant: a slot's build error is taken for NotReady
RECURSIVE CreateResourceService_poll_items_swallow(_, _, _, _)
CreateResourceService_poll_items_swallow(f, st, i, done) ==
    IF i > Len(f) THEN [fut |-> f, done |-> done, err |-> FALSE, polled |-> <<>>]
    ELSE IF f[i].tag = "Service"
    THEN CreateResourceService_poll_items_swallow(f, st, i + 1, done)
    ELSE CASE PollFuture(st[i]) = "Ready" ->
                PolledItem(i, CreateResourceService_poll_items_swallow(
                    [f EXCEPT ![i].tag = "Service"], st, i + 1, done))
           [] OTHER ->
                PolledItem(i, CreateResourceService_poll_items_swallow(f, st, i + 1, FALSE))

\* the loop of CreateResourceService::poll over self.fut, from item i on
RECURSIVE CreateResourceService_poll_items(_, _, _, _)
CreateResourceService_poll_items(f, st, i, done) ==
    IF i > Len(f) THEN [fut |-> f, done |-> done, err |-> FALSE, polled |-> <<>>]
    ELSE IF f[i].tag = "Service"
    THEN CreateResourceService_poll_items(f, st, i + 1, done)
    ELSE CASE PollFuture(st[i]) = "Err" ->
                [fut |-> f, done |-> done, err |-> TRUE, polled |-> <<i>>]
           [] PollFuture(st[i]) = "Ready" ->
                PolledItem(i, CreateResourceService_poll_items([f EXCEPT ![i].tag = "Service"],
                                                 st, i + 1, done))
           [] PollFuture(st[i]) = "NotReady" ->
                PolledItem(i, CreateResourceService_poll_items(f, st, i + 1, FALSE))

CreateResourceService_poll ==
    /\ subject = "Resource"
    /\ phase = "Building"
    /\ LET r == CreateResourceService_poll_items(fut, inner, 1, TRUE)
       IN IF r.err
          THEN /\ poll_result' = "Err"
               /\ phase' = "Failed"
               /\ fut' = r.fut
               /\ UNCHANGED built
          ELSE IF r.done /\ ~Drainable(r.fut)
          THEN /\ poll_result' = "Panic"
               /\ phase' = "Panicked"
               /\ fut' = r.fut
               /\ UNCHANGED built
          ELSE IF r.done
          THEN /\ poll_result' = "Ready"
               /\ phase' = "Assembled"
               /\ fut' = <<>>
               /\ built' = [services |-> Drain(r.fut), default |-> "None",
                            none |-> FALSE]
          ELSE /\ poll_result' = "NotReady"
               /\ fut' = r.fut
               /\ UNCHANGED <<phase, built>>
    /\ UNCHANGED <<subject, serviceVars, patternVars, filterVars, declVars, fut_default, inner, default_fut, call,
                   routeVars>>

\* mutant: the first filter alone decides
RouteService_check_items_first(fs, req, i) ==
    IF i > Len(fs) THEN TRUE
    ELSE Filter_check(fs[i], req).result

\* the loop of RouteService::check over self.filters, from filter i on
RECURSIVE RouteService_check_items(_, _, _)
RouteService_check_items(fs, req, i) ==
    IF i > Len(fs) THEN TRUE
    ELSE IF ~Filter_check(fs[i], req).result THEN FALSE
    ELSE RouteService_check_items(fs, req, i + 1)

\* RouteService::check: every filter of the route accepts the request
RouteService_check(rt, req) == RouteService_check_items(rt.filters, req, 1)

\* the loop of ResourceService::call over self.routes, from item i on
RECURSIVE ResourceService_call_items(_, _, _, _)
ResourceService_call_items(svc, req, i, offered) ==
    IF i > Len(svc.services)
    THEN [req |-> req, offered |-> offered, invoked |-> <<>>,
          responses |-> <<Response([kind |-> "unhandled", id |-> 0], 404)>>]
    ELSE LET off == Append(offered, svc.services[i].id)
         IN IF RouteService_check(svc.services[i], req)
            THEN [req |-> req, offered |-> off,
                  invoked |-> <<RouteTarget(svc.services[i].id)>>,
                  responses |-> <<Response(RouteTarget(svc.services[i].id), 200)>>]
            ELSE ResourceService_call_items(svc, req, i + 1, off)

ResourceService_call(req) ==
    /\ subject = "Resource"
    /\ phase = "Assembled"
    /\ call' = ResourceService_call_items(built, req, 1, <<>>)
    /\ UNCHANGED <<subject, serviceVars, patternVars, filterVars, phase, declVars, buildVars, routeVars>>

\* ---- App (app.rs) -------------------------------------------------------
App_service(acc) ==
    /\ subject = "App"
    /\ phase = "Declared"
    /\ Len(services) < MaxRoutes
    /\ services' = Append(services, Factory(Len(services) + 1, acc))
    /\ UNCHANGED <<subject, serviceVars, patternVars, filterVars, phase, default, defaults, factory_ref, buildVars,
                   call, routeVars>>

\* `own` tells whether the resource was given a default of its own, which is
\* what the cell returned by resource.get_default() then holds
App_resource(acc, own) ==
    /\ subject = "App"
    /\ phase = "Declared"
    /\ Len(services) < MaxRoutes
    /\ defaults' = Append(defaults, [value |-> IF own THEN "own" ELSE "None",
                                      listed |-> TRUE])
    /\ services' = Append(services, Factory(Len(services) + 1, acc))
    /\ UNCHANGED <<subject, serviceVars, patternVars, filterVars, phase, default, factory_ref, buildVars, call,
                   routeVars>>

\* self.filters.push(Box::new(f)): `acc` are the requests f accepts
App_filter(acc) ==
    /\ subject = "App"
    /\ phase = "Declared"
    /\ Len(filters) < MaxFilters
    /\ filters' = Append(filters, FnFilter(acc))
    /\ UNCHANGED <<subject, serviceVars, patternVars, filter, checked, phase, declVars, buildVars, call,
                   routeVars>>

\* App::middleware: the endpoint is wrapped; state, services, default, filters
\* and factory_ref move to the new App, which starts with defaults:
\* Vec::new(), so the cells collected so far are no longer in App.defaults
App_middleware ==
    /\ subject = "App"
    /\ phase = "Declared"
    /\ endpoint < MaxMiddleware
    /\ endpoint' = endpoint + 1
    /\ defaults' = [i \in 1..Len(defaults) |-> [defaults[i] EXCEPT !.listed = FALSE]]
    /\ UNCHANGED <<subject, app_state, framed_route, errhandlers, boxed, ready,
                   patternVars, filterVars, phase, services, default, factory_ref, buildVars,
                   call, routeVars>>

App_default_resource ==
    /\ subject = "App"
    /\ phase = "Declared"
    /\ default' = "Some"
    /\ UNCHANGED <<subject, serviceVars, patternVars, filterVars, phase, services, defaults, factory_ref, buildVars,
                   call, routeVars>>

App_into_new_service ==
    /\ subject = "App"
    /\ phase = "Declared"
    /\ phase' = "Factory"
    /\ defaults' = IF default # "None"
                   THEN [i \in 1..Len(defaults) |->
                            IF defaults[i].listed /\ defaults[i].value = "None"
                            THEN [defaults[i] EXCEPT !.value = "app"]
                            ELSE defaults[i]]
                   ELSE defaults
    /\ factory_ref' = [some |-> TRUE, services |-> services]
    /\ UNCHANGED <<subject, serviceVars, patternVars, filterVars, services, default, buildVars, call, routeVars>>

\* mutant: an empty cell is reported as a build error instead of a panic
AppEndpoint_new_service_recoverable ==
    /\ subject = "App"
    /\ phase \in {"Declared", "Factory"}
    /\ IF factory_ref.some
       THEN /\ phase' = "Building"
            /\ fut' = NewItems(factory_ref.services)
            /\ inner' = [i \in 1..Len(factory_ref.services) |-> "pending"]
       ELSE /\ phase' = "Failed"
            /\ UNCHANGED <<fut, inner>>
    /\ UNCHANGED <<subject, serviceVars, patternVars, filterVars, declVars, fut_default, default_fut, built,
                   poll_result, call, routeVars>>

\* self.factory.borrow_mut().as_mut().unwrap().new_service(): the unwrap
\* panics on an empty cell, else AppFactory::new_service runs
AppEndpoint_new_service ==
    /\ subject = "App"
    /\ phase \in {"Declared", "Factory"}
    /\ IF factory_ref.some
       THEN /\ phase' = "Building"
            /\ fut' = NewItems(factory_ref.services)
            /\ inner' = [i \in 1..Len(factory_ref.services) |-> "pending"]
       ELSE /\ phase' = "Panicked"
            /\ UNCHANGED <<fut, inner>>
    /\ UNCHANGED <<subject, serviceVars, patternVars, filterVars, declVars, fut_default, default_fut, built,
                   poll_result, call, routeVars>>

\* mutant: a slot that resolves in this poll is left a future
RECURSIVE CreateAppService_poll_items_unpromoted(_, _, _, _)
CreateAppService_poll_items_unpromoted(f, st, i, done) ==
    IF i > Len(f) THEN [fut |-> f, done |-> done, err |-> FALSE, polled |-> <<>>]
    ELSE IF f[i].tag = "Service"
    THEN CreateAppService_poll_items_unpromoted(f, st, i + 1, done)
    ELSE CASE PollFuture(st[i]) = "Err" ->
                [fut |-> f, done |-> done, err |-> TRUE, polled |-> <<i>>]
           [] PollFuture(st[i]) = "Ready" ->
                PolledItem(i, CreateAppService_poll_items_unpromoted(
                                  f, st, i + 1, FALSE))
           [] PollFuture(st[i]) = "NotReady" ->
                PolledItem(i, CreateAppService_poll_items_unpromoted(
                                  f, st, i + 1, FALSE))

\* the loop of CreateAppService::poll over self.fut, from item i on
RECURSIVE CreateAppService_poll_items(_, _, _, _)
CreateAppService_poll_items(f, st, i, done) ==
    IF i > Len(f) THEN [fut |-> f, done |-> done, err |-> FALSE, polled |-> <<>>]
    ELSE IF f[i].tag = "Service"
    THEN CreateAppService_poll_items(f, st, i + 1, done)
    ELSE CASE PollFuture(st[i]) = "Err" ->
                [fut |-> f, done |-> done, err |-> TRUE, polled |-> <<i>>]
           [] PollFuture(st[i]) = "Ready" ->
                PolledItem(i, CreateAppService_poll_items([f EXCEPT ![i].tag = "Service"],
                                            st, i + 1, done))
           [] PollFuture(st[i]) = "NotReady" ->
                PolledItem(i, CreateAppService_poll_items(f, st, i + 1, FALSE))

\* AppEndpointFactory::poll, which is try_ready!(CreateAppService::poll)
CreateAppService_poll ==
    /\ subject = "App"
    /\ phase = "Building"
    /\ LET r == CreateAppService_poll_items(fut, inner, 1, TRUE)
       IN IF r.err
          THEN /\ poll_result' = "Err"
               /\ phase' = "Failed"
               /\ fut' = r.fut
               /\ UNCHANGED built
          ELSE IF r.done /\ ~Drainable(r.fut)
          THEN /\ poll_result' = "Panic"
               /\ phase' = "Panicked"
               /\ fut' = r.fut
               /\ UNCHANGED built
          ELSE IF r.done
          THEN /\ poll_result' = "Ready"
               /\ phase' = "Assembled"
               /\ fut' = <<>>
               /\ built' = [services |-> Drain(r.fut), default |-> "None",
                            none |-> FALSE]
          ELSE /\ poll_result' = "NotReady"
               /\ fut' = r.fut
               /\ UNCHANGED <<phase, built>>
    /\ UNCHANGED <<subject, serviceVars, patternVars, filterVars, declVars, fut_default, inner, default_fut, call,
                   routeVars>>

\* Router::recognize_mut of actix_router over the (ResourceDef, service) pairs
\* in the order router.rdef registered them: the index of the first pair whose
\* ResourceDef matches the request's path, 0 when none does
RECURSIVE recognize_mut(_, _, _)
recognize_mut(svcs, req, i) ==
    IF i > Len(svcs) THEN 0
    ELSE IF req \in svcs[i].accepts THEN i
    ELSE recognize_mut(svcs, req, i + 1)

AppService_call(req) ==
    /\ subject = "App"
    /\ phase = "Assembled"
    /\ LET k == recognize_mut(built.services, req, 1)
       IN call' = IF k # 0
                  THEN [req |-> req,
                        offered |-> [i \in 1..k |-> built.services[i].id],
                        invoked |-> <<RouteTarget(built.services[k].id)>>,
                        responses |-> <<Response(RouteTarget(built.services[k].id), 200)>>]
                  ELSE [req |-> req,
                        offered |-> [i \in 1..Len(built.services) |-> built.services[i].id],
                        invoked |-> <<BuiltinTarget>>,
                        responses |-> <<Response(BuiltinTarget, 404)>>]
    /\ UNCHANGED <<subject, serviceVars, patternVars, filterVars, phase, declVars, buildVars, routeVars>>

\* ---- Route and its handler pipeline (route.rs, handler.rs) ---------------
\* Extract::new().and_then(Handle::new(handler))
RouteBuilder_to ==
    /\ subject = "Route"
    /\ phase = "Declared"
    /\ route = "None"
    /\ route' = "to"
    /\ UNCHANGED <<subject, serviceVars, patternVars, filterVars, phase, declVars, buildVars, call, pipeline>>

\* Extract::new().then(AsyncHandle::new(handler))
RouteBuilder_to_async ==
    /\ subject = "Route"
    /\ phase = "Declared"
    /\ route = "None"
    /\ route' = "to_async"
    /\ UNCHANGED <<subject, serviceVars, patternVars, filterVars, phase, declVars, buildVars, call, pipeline>>

Route_new_service ==
    /\ subject = "Route"
    /\ phase = "Declared"
    /\ route # "None"
    /\ phase' = "Building"
    /\ UNCHANGED <<subject, serviceVars, patternVars, filterVars, declVars, buildVars, call, routeVars>>

\* Extract, Handle and AsyncHandle build with ok(..): the boxed future is ready
CreateRouteService_poll ==
    /\ subject = "Route"
    /\ phase = "Building"
    /\ phase' = "Assembled"
    /\ UNCHANGED <<subject, serviceVars, patternVars, filterVars, declVars, buildVars, call, routeVars>>

\* impl Responder for Result<T, E>: Ok(val) responds with val, Err(e) is err(e.into())
Result_respond_to(r) == IF r.ok THEN Ok(r.status) ELSE Err(r.status)

\* ResponseFuture::poll: self.0.poll().map_err(|e| e.into())
ResponseFuture_poll(r) == IF r.ok THEN r ELSE Err(r.status)

\* HandleService::call: ResponseFuture::new(self.hnd.call(param, ex).respond_to(req))
HandleService_call(hres) == ResponseFuture_poll(Result_respond_to(hres))

\* AsyncHandleService::call on Err(e): ok(Response::from(e).into_body())
AsyncHandleService_call_err(x) == Ok(x.status)

\* AsyncHandleServiceResponse::poll: the handler's future, with Into conversions
AsyncHandleServiceResponse_poll(hres) == IF hres.ok THEN Ok(hres.status) ELSE Err(hres.status)

\* ExtractResponse::poll: the extractor's result, its error turned into Error
ExtractResponse_poll(ex) == IF ex.ok THEN ex ELSE Err(ex.status)

\* RouteServiceWrapper::call and RouteService::call box the future unchanged
RouteServiceWrapper_call(r) == r

\* ResourceServiceResponse::poll: try_ready!(self.fut.poll()), then res.into()
ResourceServiceResponse_poll(r) == r

\* HttpServiceWrapper::call: self.service.call(req).map_err(|_| ())
HttpServiceWrapper_call(r) == IF r.ok THEN r ELSE ErrUnit

\* what the application service's future resolves to for a route's result
Outcome(r) ==
    HttpServiceWrapper_call(ResourceServiceResponse_poll(RouteServiceWrapper_call(r)))

\* ExtractService::call: start the extractor's future for the request
RouteService_call(ex) ==
    /\ subject = "Route"
    /\ phase = "Assembled"
    /\ pipeline.stage \in {"idle", "done"}
    /\ pipeline' = [stage |-> "extracting", extract |-> ex, handler |-> NoResult,
                    handler_calls |-> 0, outcome |-> NoResult]
    /\ UNCHANGED <<subject, serviceVars, patternVars, filterVars, phase, declVars, buildVars, call, route>>

\* The extractor's future resolves.  With and_then the handler service is
\* called on Ok only and an Err is the chain's result; with then the
\* AsyncHandleService is called with the Result and answers an Err itself.
\* `hres` is what the handler returns if it is invoked.
ExtractFuture_resolve(hres) ==
    /\ subject = "Route"
    /\ pipeline.stage = "extracting"
    /\ LET x == ExtractResponse_poll(pipeline.extract)
       IN IF route = "to"
          THEN IF x.ok
               THEN pipeline' = [pipeline EXCEPT
                        !.stage = "done", !.handler = hres,
                        !.handler_calls = @ + 1,
                        !.outcome = Outcome(HandleService_call(hres))]
               ELSE pipeline' = [pipeline EXCEPT
                        !.stage = "done", !.outcome = Outcome(x)]
          ELSE IF x.ok
               THEN pipeline' = [pipeline EXCEPT
                        !.stage = "handling", !.handler = hres,
                        !.handler_calls = @ + 1]
               ELSE pipeline' = [pipeline EXCEPT
                        !.stage = "done",
                        !.outcome = Outcome(AsyncHandleService_call_err(x))]
    /\ UNCHANGED <<subject, serviceVars, patternVars, filterVars, phase, declVars, buildVars, call, route>>

\* the future returned by an asynchronous handler resolves
HandlerFuture_resolve ==
    /\ subject = "Route"
    /\ pipeline.stage = "handling"
    /\ pipeline' = [pipeline EXCEPT
            !.stage = "done",
            !.outcome = Outcome(AsyncHandleServiceResponse_poll(pipeline.handler))]
    /\ UNCHANGED <<subject, serviceVars, patternVars, filterVars, phase, declVars, buildVars, call, route>>

\* ---- building and checking one filter (filter.rs) ------------------------
\* filter::Method(method), which Get(), Post(), ... call with their method
filter_Method(m) ==
    /\ subject = "Filter"
    /\ filter = NoFilter
    /\ filter' = MethodFilter(m)
    /\ UNCHANGED <<subject, serviceVars, patternVars, filters, checked, phase, declVars, buildVars, call,
                   routeVars>>

filter_Header(v) ==
    /\ subject = "Filter"
    /\ filter = NoFilter
    /\ filter' = HeaderFilter(v)
    /\ UNCHANGED <<subject, serviceVars, patternVars, filters, checked, phase, declVars, buildVars, call,
                   routeVars>>

filter_Host(h) ==
    /\ subject = "Filter"
    /\ filter = NoFilter
    /\ filter' = HostFilter(h)
    /\ UNCHANGED <<subject, serviceVars, patternVars, filters, checked, phase, declVars, buildVars, call,
                   routeVars>>

\* AnyFilter(vec![Box::new(filter)])
filter_Any(f) ==
    /\ subject = "Filter"
    /\ filter = NoFilter
    /\ filter' = AnyFilter(<<f>>)
    /\ UNCHANGED <<subject, serviceVars, patternVars, filters, checked, phase, declVars, buildVars, call,
                   routeVars>>

\* self.0.push(Box::new(filter))
AnyFilter_or(f) ==
    /\ subject = "Filter"
    /\ filter.kind = "Any"
    /\ Len(filter.children) < MaxChildren
    /\ filter' = AnyFilter(Append(filter.children, f))
    /\ checked' = NoCheck
    /\ UNCHANGED <<subject, serviceVars, patternVars, filters, phase, declVars, buildVars, call,
                   routeVars>>

\* AllFilter(vec![Box::new(filter)])
filter_All(f) ==
    /\ subject = "Filter"
    /\ filter = NoFilter
    /\ filter' = AllFilter(<<f>>)
    /\ UNCHANGED <<subject, serviceVars, patternVars, filters, checked, phase, declVars, buildVars, call,
                   routeVars>>

\* self.0.push(Box::new(filter))
AllFilter_and(f) ==
    /\ subject = "Filter"
    /\ filter.kind = "All"
    /\ Len(filter.children) < MaxChildren
    /\ filter' = AllFilter(Append(filter.children, f))
    /\ checked' = NoCheck
    /\ UNCHANGED <<subject, serviceVars, patternVars, filters, phase, declVars, buildVars, call,
                   routeVars>>

\* NotFilter(Box::new(filter))
filter_Not(f) ==
    /\ subject = "Filter"
    /\ filter = NoFilter
    /\ filter' = NotFilter(f)
    /\ UNCHANGED <<subject, serviceVars, patternVars, filters, checked, phase, declVars, buildVars, call,
                   routeVars>>

\* filter.check(&mut req) on the filter built so far
check(req) ==
    /\ subject = "Filter"
    /\ filter # NoFilter
    /\ checked' = [req |-> req, done |-> TRUE] @@ Filter_check(filter, req)
    /\ UNCHANGED <<subject, serviceVars, patternVars, filters, filter, phase, declVars, buildVars, call,
                   routeVars>>

\* ---- compiling and matching one pattern (pattern.rs) --------------------
\* a pattern exists: with_prefix has returned one
Compiled == pattern.tp \notin {"None", "Panic"}

\* ResourcePattern::new(path)
ResourcePattern_new(t) ==
    /\ subject = "ResourcePattern"
    /\ pattern = NoPattern
    /\ pattern' = with_prefix(t, FALSE, Len(t) # 0)
    /\ UNCHANGED <<subject, serviceVars, matched, filterVars, phase, declVars, buildVars, call,
                   routeVars>>

\* ResourcePattern::prefix(path)
ResourcePattern_prefix(t) ==
    /\ subject = "ResourcePattern"
    /\ pattern = NoPattern
    /\ pattern' = with_prefix(t, TRUE, Len(t) # 0)
    /\ UNCHANGED <<subject, serviceVars, matched, filterVars, phase, declVars, buildVars, call,
                   routeVars>>

\* pattern.is_match(path)
is_match(path) ==
    /\ subject = "ResourcePattern"
    /\ Compiled
    /\ matched = NoMatch
    /\ matched' = [op |-> "is_match", path |-> path, plen |-> 0,
                   result |-> ResourcePattern_is_match(pattern, path),
                   params |-> <<>>, tail |-> 0, panic |-> FALSE]
    /\ UNCHANGED <<subject, serviceVars, pattern, filterVars, phase, declVars, buildVars, call,
                   routeVars>>

\* pattern.match_with_params(&req, plen) for a request of that path
match_with_params(path, plen) ==
    /\ subject = "ResourcePattern"
    /\ Compiled
    /\ matched = NoMatch
    /\ matched' = [op |-> "match_with_params", path |-> path, plen |-> plen]
                      @@ ResourcePattern_match_with_params(pattern, path, plen)
    /\ UNCHANGED <<subject, serviceVars, pattern, filterVars, phase, declVars, buildVars, call,
                   routeVars>>

\* pattern.match_prefix_with_params(&req, plen) for a request of that path
match_prefix_with_params(path, plen) ==
    /\ subject = "ResourcePattern"
    /\ Compiled
    /\ matched = NoMatch
    /\ matched' = [op |-> "match_prefix_with_params", path |-> path,
                   plen |-> plen]
                      @@ ResourcePattern_match_prefix_with_params(pattern, path,
                                                                  plen)
    /\ UNCHANGED <<subject, serviceVars, pattern, filterVars, phase, declVars, buildVars, call,
                   routeVars>>

\* ---- the application state is built (state.rs, app.rs) -----------------
\* App::new and App::with_state: AppState::St
App_with_state ==
    /\ subject = "AppState"
    /\ app_state.kind = "None"
    /\ app_state' = [app_state EXCEPT !.kind = "St"]
    /\ UNCHANGED <<subject, coreVars, framed_route, errhandlers, boxed>>

\* App::with_state_factory: AppState::Fn
App_with_state_factory ==
    /\ subject = "AppState"
    /\ app_state.kind = "None"
    /\ app_state' = [app_state EXCEPT !.kind = "Fn"]
    /\ UNCHANGED <<subject, coreVars, framed_route, errhandlers, boxed>>

\* AppStateFactory::new_service, called by the new_service of
\* AppStateFactory.and_then(endpoint) together with the endpoint's: St
\* answers ok(AppStateService), Fn calls f.construct() once
AppStateFactory_new_service ==
    /\ subject = "AppState"
    /\ app_state.kind # "None"
    /\ app_state.builds < MaxBuilds
    /\ app_state' = [app_state EXCEPT
            !.builds = @ + 1,
            !.constructs = IF app_state.kind = "Fn" THEN @ + 1 ELSE @,
            !.fut = IF app_state.kind = "Fn" THEN "pending" ELSE "ok",
            !.service = FALSE,
            !.endpoint = "pending",
            !.build = "none",
            !.converted = 0]
    /\ UNCHANGED <<subject, coreVars, framed_route, errhandlers, boxed>>

\* the future the state constructor returned resolves; construct's map_err
\* logs the error and leaves ()
StateFactory_construct_resolve(r) ==
    /\ subject = "AppState"
    /\ app_state.fut = "pending"
    /\ app_state.build \in {"none", "NotReady"}
    /\ app_state' = [app_state EXCEPT !.fut = r]
    /\ UNCHANGED <<subject, coreVars, framed_route, errhandlers, boxed>>

\* poll of the future of AppStateFactory.and_then(endpoint): the state
\* future first, its error returned at once; then the endpoint's future,
\* which answers b; Ready when both services exist
AndThenNewServiceFuture_poll(b) ==
    /\ subject = "AppState"
    /\ app_state.builds > 0
    /\ app_state.build \in {"none", "NotReady"}
    /\ app_state.endpoint = "ready" => b = "Ready"
    /\ LET pa == IF app_state.service THEN "Ready"
                 ELSE AppStateFuture_poll(app_state.fut)
       IN IF pa = "Err"
          THEN app_state' = [app_state EXCEPT !.build = "Err"]
          ELSE IF b = "Err"
          THEN app_state' = [app_state EXCEPT
                                !.service = (pa = "Ready"), !.build = "Err"]
          ELSE app_state' = [app_state EXCEPT
                    !.service = (pa = "Ready"),
                    !.endpoint = IF b = "Ready" THEN "ready" ELSE @,
                    !.build = IF pa = "Ready" /\ b = "Ready" THEN "Ready"
                              ELSE "NotReady"]
    /\ UNCHANGED <<subject, coreVars, framed_route, errhandlers, boxed>>

\* AppStateService::call: the Request becomes a ServiceRequest
AppStateService_call ==
    /\ subject = "AppState"
    /\ app_state.build = "Ready"
    /\ app_state.converted < NumRequests
    /\ app_state' = [app_state EXCEPT !.converted = @ + 1]
    /\ UNCHANGED <<subject, coreVars, framed_route, errhandlers, boxed>>

\* ---- one FramedRoute and the requests handed to it (framed_route.rs) -----
\* FramedRoute::build(path)
FramedRoute_build(t) ==
    /\ subject = "FramedRoute"
    /\ ~framed_route.some
    /\ framed_route' = FramedRoutePatternBuilder(t, <<>>)
    /\ UNCHANGED <<subject, coreVars, app_state, errhandlers, boxed>>

FramedRoute_get(t) ==
    /\ subject = "FramedRoute"
    /\ ~framed_route.some
    /\ framed_route' = FramedRoutePatternBuilder(t, <<"GET">>)
    /\ UNCHANGED <<subject, coreVars, app_state, errhandlers, boxed>>

FramedRoute_post(t) ==
    /\ subject = "FramedRoute"
    /\ ~framed_route.some
    /\ framed_route' = FramedRoutePatternBuilder(t, <<"POST">>)
    /\ UNCHANGED <<subject, coreVars, app_state, errhandlers, boxed>>

FramedRoute_put(t) ==
    /\ subject = "FramedRoute"
    /\ ~framed_route.some
    /\ framed_route' = FramedRoutePatternBuilder(t, <<"PUT">>)
    /\ UNCHANGED <<subject, coreVars, app_state, errhandlers, boxed>>

FramedRoute_delete(t) ==
    /\ subject = "FramedRoute"
    /\ ~framed_route.some
    /\ framed_route' = FramedRoutePatternBuilder(t, <<"DELETE">>)
    /\ UNCHANGED <<subject, coreVars, app_state, errhandlers, boxed>>

\* FramedRoutePatternBuilder::method and FramedRoute::method
FramedRoute_method(m) ==
    /\ subject = "FramedRoute"
    /\ framed_route.some
    /\ ~framed_route.handled.done
    /\ Len(framed_route.methods) < MaxFilters
    /\ framed_route' = [framed_route EXCEPT !.methods = Append(@, m)]
    /\ UNCHANGED <<subject, coreVars, app_state, errhandlers, boxed>>

\* FramedRoute::header(name, value)
FramedRoute_header(v) ==
    /\ subject = "FramedRoute"
    /\ framed_route.some
    /\ ~framed_route.handled.done
    /\ Len(framed_route.headers) < MaxFilters
    /\ framed_route' = [framed_route EXCEPT !.headers = Append(@, v)]
    /\ UNCHANGED <<subject, coreVars, app_state, errhandlers, boxed>>

\* FramedRouteService::handle on the service built from the route: create,
\* new_service and CreateRouteService::poll copy pattern, methods and headers
FramedRouteService_handle(req) ==
    /\ subject = "FramedRoute"
    /\ framed_route.some
    /\ framed_route' = [framed_route EXCEPT
            !.handled = FramedRouteService_handle_result(framed_route, req)]
    /\ UNCHANGED <<subject, coreVars, app_state, errhandlers, boxed>>

\* ---- ErrorHandlers (middleware/errhandlers.rs) --------------------------
\* ErrorHandlers::handler(status, handler): HashMap::insert
ErrorHandlers_handler(status) ==
    /\ subject = "ErrorHandlers"
    /\ ~errhandlers.call.done
    /\ errhandlers' = [errhandlers EXCEPT !.handlers = @ \cup {status}]
    /\ UNCHANGED <<subject, coreVars, app_state, framed_route, boxed>>

\* Transform::call with a service whose response has that status
ErrorHandlers_call(status) ==
    /\ subject = "ErrorHandlers"
    /\ errhandlers' = [errhandlers EXCEPT
            !.call = ErrorHandlers_call_result(errhandlers.handlers, status)]
    /\ UNCHANGED <<subject, coreVars, app_state, framed_route, boxed>>

\* ---- a handler that returns a boxed future (responder.rs, handler.rs) ----
\* mutant: the responder of the value is run on an error too
BoxFuture_chain_always(res) ==
    [runs |-> 1,
     outcome |-> IF res.ok THEN ResponseFuture_poll(Result_respond_to(res.value))
                 ELSE Err(res.status)]

\* self.map_err(|e| e.into()).and_then(move |r| ResponseFuture(r.respond_to(req)))
\* once self has resolved
BoxFuture_chain(res) ==
    IF res.ok
    THEN [runs |-> 1,
          outcome |-> ResponseFuture_poll(Result_respond_to(res.value))]
    ELSE [runs |-> 0, outcome |-> Err(res.status)]

\* HandleService::call: the handler returns its boxed future and respond_to
\* wraps it; nothing has been polled
HandleService_call_boxed ==
    /\ subject = "BoxFuture"
    /\ boxed.stage \in {"idle", "done"}
    /\ boxed' = [NoBoxed EXCEPT !.stage = "pending"]
    /\ UNCHANGED <<subject, coreVars, app_state, framed_route, errhandlers>>

\* the boxed future of the handler resolves
BoxFuture_resolve(res) ==
    /\ subject = "BoxFuture"
    /\ boxed.stage = "pending"
    /\ boxed' = [boxed EXCEPT !.stage = "resolved", !.result = res]
    /\ UNCHANGED <<subject, coreVars, app_state, framed_route, errhandlers>>

\* ResponseFuture::poll of the future respond_to returned
BoxFuture_poll ==
    /\ subject = "BoxFuture"
    /\ boxed.stage \in {"pending", "resolved"}
    /\ IF boxed.stage = "pending"
       THEN boxed' = [boxed EXCEPT !.last_poll = "NotReady"]
       ELSE boxed' = [boxed EXCEPT
                !.stage = "done",
                !.last_poll = "Ready",
                !.responder_runs = BoxFuture_chain(boxed.result).runs,
                !.outcome = BoxFuture_chain(boxed.result).outcome]
    /\ UNCHANGED <<subject, coreVars, app_state, framed_route, errhandlers>>

\* ---- poll_ready of an aggregate service ---------------------------------
RouterService_poll_ready(ans, dflt) ==
    /\ subject = "poll_ready"
    /\ ready' = [of |-> "RouterService", inner |-> ans, default |-> dflt,
                 answer |-> RouterService_poll_ready_result(ans, dflt)]
    /\ UNCHANGED <<subject, phase, declVars, buildVars, call, routeVars, filterVars,
                   patternVars, endpoint, app_state, framed_route, errhandlers,
                   boxed>>

\* a ResourceService has its routes and no default service
ResourceService_poll_ready(ans) ==
    /\ subject = "poll_ready"
    /\ ready' = [of |-> "ResourceService", inner |-> ans, default |-> "Ready",
                 answer |-> ResourceService_poll_ready_result(ans)]
    /\ UNCHANGED <<subject, phase, declVars, buildVars, call, routeVars, filterVars,
                   patternVars, endpoint, app_state, framed_route, errhandlers,
                   boxed>>

\* an AppService has the services of its router and no default service
AppService_poll_ready(ans) ==
    /\ subject = "poll_ready"
    /\ ready' = [of |-> "AppService", inner |-> ans, default |-> "Ready",
                 answer |-> AppService_poll_ready_result(ans)]
    /\ UNCHANGED <<subject, phase, declVars, buildVars, call, routeVars, filterVars,
                   patternVars, endpoint, app_state, framed_route, errhandlers,
                   boxed>>

Next ==
    \/ \E i \in 1..MaxRoutes : FutureResolve(i)
    \/ \E i \in 1..MaxRoutes : FutureFail(i)
    \/ DefaultResolve
    \/ DefaultFail
    \/ \E acc \in SUBSET Requests : Router_service(acc)
    \/ Router_default_service
    \/ Router_new_service
    \/ RouterFut_poll
    \/ \E req \in Requests : RouterService_call(req)
    \/ \E acc \in SUBSET Requests : FramedApp_service(acc)
    \/ FramedAppFactory_new_service
    \/ CreateService_poll
    \/ \E req \in Requests : FramedAppService_call(req)
    \/ \E acc \in SUBSET Requests : ResourceBuilder_route(<<FnFilter(acc)>>)
    \/ Resource_new_service
    \/ CreateResourceService_poll
    \/ \E req \in Requests : ResourceService_call(req)
    \/ \E acc \in SUBSET Requests : App_service(acc)
    \/ \E acc \in SUBSET Requests, own \in BOOLEAN : App_resource(acc, own)
    \/ App_default_resource
    \/ App_into_new_service
    \/ AppEndpoint_new_service
    \/ CreateAppService_poll
    \/ \E req \in Requests : AppService_call(req)
    \/ RouteBuilder_to
    \/ RouteBuilder_to_async
    \/ Route_new_service
    \/ CreateRouteService_poll
    \/ \E ex \in Results : RouteService_call(ex)
    \/ \E hres \in Results : ExtractFuture_resolve(hres)
    \/ HandlerFuture_resolve

Spec == Init /\ [][Next]_vars

\* ---- the builds of a Router and of an App whose slots all resolve to a
\* ---- service, polled for as long as a poll can make progress; which
\* ---- requests a service accepts plays no part in a build -----------------
LiveSubjects == {"Router", "App"}

InitLive ==
    /\ subject \in LiveSubjects
    /\ New

NextLive ==
    \/ \E i \in 1..MaxRoutes : FutureResolve(i)
    \/ DefaultResolve
    \/ Router_service(Requests)
    \/ Router_default_service
    \/ Router_new_service
    \/ RouterFut_poll
    \/ App_service(Requests)
    \/ \E own \in BOOLEAN : App_resource(Requests, own)
    \/ App_default_resource
    \/ App_into_new_service
    \/ AppEndpoint_new_service
    \/ CreateAppService_poll

SpecLive ==
    /\ InitLive
    /\ [][NextLive]_vars
    /\ WF_vars(\E i \in 1..MaxRoutes : FutureResolve(i))
    /\ WF_vars(DefaultResolve)
    /\ WF_vars(RouterFut_poll)
    /\ WF_vars(CreateAppService_poll)

\* ---- an App is declared, call after call, and converted into a factory ----
InitApp ==
    /\ subject = "App"
    /\ New

NextApp ==
    \/ \E acc \in SUBSET Requests : App_service(acc)
    \/ \E acc \in SUBSET Requests, own \in BOOLEAN : App_resource(acc, own)
    \/ App_middleware
    \/ App_default_resource
    \/ App_into_new_service

SpecApp == InitApp /\ [][NextApp]_vars

\* ---- the filters, and the Resource and the App that carry filters -------
FilterSubjects == {"Filter", "Resource", "App"}

InitFilter ==
    /\ subject \in FilterSubjects
    /\ New

NextFilter ==
    \/ \E m \in Methods : filter_Method(m)
    \/ \E v \in HeaderValues : filter_Header(v)
    \/ \E h \in Hosts : filter_Host(h)
    \/ \E f \in LeafFilters : filter_Any(f)
    \/ \E f \in LeafFilters : AnyFilter_or(f)
    \/ \E f \in LeafFilters : filter_All(f)
    \/ \E f \in LeafFilters : AllFilter_and(f)
    \/ \E f \in LeafFilters : filter_Not(f)
    \/ \E req \in ServiceRequests : check(req)
    \/ \E fs \in RouteExtras : ResourceBuilder_route(fs)
    \/ \E fs \in RouteExtras : ResourceBuilder_get(fs)
    \/ \E fs \in RouteExtras : ResourceBuilder_post(fs)
    \/ \E fs \in RouteExtras : ResourceBuilder_put(fs)
    \/ \E fs \in RouteExtras : ResourceBuilder_delete(fs)
    \/ \E fs \in RouteExtras : ResourceBuilder_head(fs)
    \/ \E m \in Methods, fs \in RouteExtras : ResourceBuilder_method(m, fs)
    \/ Resource_new_service
    \/ \E i \in 1..MaxRoutes : FutureResolve(i)
    \/ CreateResourceService_poll
    \/ \E req \in ServiceRequests : ResourceService_call(req)
    \/ \E acc \in SUBSET Requests : App_filter(acc)
    \/ \E acc \in SUBSET Requests : App_service(acc)
    \/ App_into_new_service
    \/ AppEndpoint_new_service
    \/ CreateAppService_poll
    \/ \E req \in Requests : AppService_call(req)

SpecFilter == InitFilter /\ [][NextFilter]_vars

\* ---- one pattern, compiled and then matched against one path ------------
InitPattern ==
    /\ subject = "ResourcePattern"
    /\ New

NextPattern ==
    \/ pattern = NoPattern /\ \E t \in Templates : ResourcePattern_new(t)
    \/ pattern = NoPattern /\ \E t \in Templates : ResourcePattern_prefix(t)
    \/ matched = NoMatch /\ \E path \in Paths : is_match(path)
    \/ matched = NoMatch /\ \E path \in RequestPaths : \E plen \in 0..(Len(path) + 1) :
                                match_with_params(path, plen)
    \/ matched = NoMatch /\ \E path \in RequestPaths : \E plen \in 0..(Len(path) + 1) :
                                match_prefix_with_params(path, plen)

SpecPattern == InitPattern /\ [][NextPattern]_vars

\* ---- the application state, a framed route, the error-handler middleware
\* ---- and a boxed-future responder, each driven on its own ----------------
ServiceSubjects ==
    {"AppState", "FramedRoute", "ErrorHandlers", "BoxFuture", "ResourcePattern",
     "poll_ready"}

InitServices ==
    /\ subject \in ServiceSubjects
    /\ New

NextServices ==
    \/ App_with_state
    \/ App_with_state_factory
    \/ AppStateFactory_new_service
    \/ \E r \in {"ok", "err"} : StateFactory_construct_resolve(r)
    \/ \E b \in {"NotReady", "Ready", "Err"} : AndThenNewServiceFuture_poll(b)
    \/ AppStateService_call
    \/ \E t \in FramedTemplates : FramedRoute_build(t)
    \/ \E t \in FramedTemplates : FramedRoute_get(t)
    \/ \E t \in FramedTemplates : FramedRoute_post(t)
    \/ \E t \in FramedTemplates : FramedRoute_put(t)
    \/ \E t \in FramedTemplates : FramedRoute_delete(t)
    \/ \E m \in Methods : FramedRoute_method(m)
    \/ \E v \in HeaderValues : FramedRoute_header(v)
    \/ \E req \in FramedRequests : FramedRouteService_handle(req)
    \/ \E st \in ErrorStatuses : ErrorHandlers_handler(st)
    \/ \E st \in ResponseStatuses : ErrorHandlers_call(st)
    \/ HandleService_call_boxed
    \/ \E res \in BoxResults : BoxFuture_resolve(res)
    \/ BoxFuture_poll
    \/ \E ans \in InnerAnswers, dflt \in Readiness :
          RouterService_poll_ready(ans, dflt)
    \/ \E ans \in InnerAnswers : ResourceService_poll_ready(ans)
    \/ \E ans \in InnerAnswers : AppService_poll_ready(ans)
    \/ pattern = NoPattern /\ \E t \in FramedTemplates : ResourcePattern_new(t)
    \/ Compiled /\ matched = NoMatch
          /\ \E path \in LongPaths : match_with_params(path, LongPad)
    \/ Compiled /\ matched = NoMatch
          /\ \E path \in LongPaths : match_prefix_with_params(path, LongPad)

SpecServices == InitServices /\ [][NextServices]_vars

\* ---- properties ---------------------------------------------------------
Aggregates == {"Router", "App", "Resource"}
Dispatchers == {"Router", "FramedApp"}

\* the build future of some slot (or of the Router's default) has not resolved
SlotPending ==
    \/ \E i \in 1..Len(inner) : inner[i] = "pending"
    \/ subject = "Router" /\ default_fut = "pending"

\* the build future of some slot (or of the Router's default) resolved to an error
SlotFailed ==
    \/ \E i \in 1..Len(inner) : inner[i] = "failed"
    \/ subject = "Router" /\ default_fut = "failed"

\* every slot's build future (and the Router's default) resolved to a service
AllResolved ==
    /\ \A i \in 1..Len(inner) : inner[i] = "ready"
    /\ subject = "Router" => default_fut = "ready"

\* index of the first registered route that accepts req, 0 when none does
FirstAccepting(svcs, req) ==
    LET S == {i \in 1..Len(svcs) : req \in svcs[i].accepts}
    IN IF S = {} THEN 0 ELSE CHOOSE i \in S : \A j \in S : i <= j

Called == call.req # 0

\* a step that polls the aggregate build future: while building, the only
\* steps that leave the slots' build futures alone are polls
Polled ==
    /\ phase = "Building"
    /\ inner' = inner
    /\ default_fut' = default_fut

\* C1 (as stated): on every poll of the aggregate build of a Router, App or
\* Resource where at least one slot is still unresolved, the poll returns
\* NotReady.
C1_PendingPollReturnsNotReady ==
    [][(subject \in Aggregates /\ Polled /\ SlotPending)
        => poll_result' = "NotReady"]_vars

\* C1 (amended): the aggregate build of a Router, App or Resource yields a
\* dispatch service only when every slot (and the Router's default) has
\* resolved; a poll made while a slot is unresolved never yields a service: it
\* returns NotReady, or Err when a polled slot's build failed; and no request
\* is dispatched while a slot is pending.
C1_BuildOnlyWhenAllResolved ==
    /\ [][(subject \in Aggregates /\ Polled)
            => /\ poll_result' = "Ready" => (AllResolved /\ ~built'.none)
               /\ SlotPending => (poll_result' \in {"NotReady", "Err"} /\ built'.none)
               /\ (SlotPending /\ ~SlotFailed) => poll_result' = "NotReady"]_vars
    /\ [](subject \in Aggregates => (~built.none => AllResolved))
    /\ [](subject \in Aggregates => (Called => AllResolved))

\* a poll returned NotReady with one slot promoted and another still pending
C1_Witness ==
    /\ subject = "Router"
    /\ poll_result = "NotReady"
    /\ \E i \in 1..Len(fut) : fut[i].tag = "Service"
    /\ \E j \in 1..Len(inner) : inner[j] = "pending"

\* C2: RouterService.call and FramedAppService.call offer the request to the
\* routes in registration order and invoke the first that accepts it; the
\* routes registered after it are never offered the request.
C2_FirstAcceptingRouteHandles ==
    (subject \in Dispatchers /\ Called) =>
        LET k == FirstAccepting(services, call.req)
        IN k # 0 =>
            /\ call.invoked = <<RouteTarget(services[k].id)>>
            /\ call.offered = [i \in 1..k |-> services[i].id]

\* two registered routes both accept the dispatched request
C2_Witness ==
    /\ subject \in Dispatchers
    /\ Called
    /\ Len(services) >= 2
    /\ call.req \in services[1].accepts
    /\ call.req \in services[2].accepts

\* C3: whatever the order in which the slots' build futures resolve, every
\* slot keeps the position of its factory, and the assembled service holds at
\* position i the instance of the i-th registered factory (with its pattern).
C3_RegistrationOrderPreserved ==
    /\ phase = "Building" =>
        /\ Len(fut) = Len(services)
        /\ \A i \in 1..Len(fut) :
              [k \in DOMAIN fut[i] \ {"tag"} |-> fut[i][k]] = services[i]
    /\ ~built.none =>
        /\ Len(built.services) = Len(services)
        /\ \A i \in 1..Len(services) : built.services[i] = services[i]

\* a later slot was promoted while an earlier one is still a future
C3_Witness ==
    /\ phase = "Building"
    /\ \E i, j \in 1..Len(fut) :
          i < j /\ fut[i].tag = "Future" /\ fut[j].tag = "Service"

\* C4: for every request passed to RouterService.call or
\* FramedAppService.call exactly one target is invoked, once: the first
\* accepting route or, when none accepts, the fallback; and there is exactly
\* one response future, made by that target.
C4_ExactlyOneInvocation ==
    (subject \in Dispatchers /\ Called) =>
        LET k == FirstAccepting(services, call.req)
        IN /\ Len(call.invoked) = 1
           /\ Len(call.responses) = 1
           /\ k # 0 => /\ call.invoked[1] = RouteTarget(services[k].id)
                       /\ call.responses[1].by = call.invoked[1]
           /\ k = 0 => call.invoked[1] =
                          IF subject = "Router" THEN DefaultTarget ELSE BuiltinTarget

\* the first route handed the request back and the second one served it
C4_Witness ==
    /\ subject = "FramedApp"
    /\ Called
    /\ Len(services) >= 2
    /\ call.req \notin services[1].accepts
    /\ call.req \in services[2].accepts
    /\ call.invoked = <<RouteTarget(services[2].id)>>
    /\ Len(call.responses) = 1

\* C5: when no registered route accepts a request, RouterService.call passes
\* it to the default service: the one given to Router::default_service, else
\* one that answers 404 Not Found.
C5_DefaultServiceHandlesUnmatched ==
    (subject = "Router" /\ Called /\ FirstAccepting(services, call.req) = 0) =>
        /\ call.invoked = <<DefaultTarget>>
        /\ call.offered = [i \in 1..Len(services) |-> services[i].id]
        /\ default = "custom" =>
              call.responses = <<Response([kind |-> "custom", id |-> 0], 200)>>
        /\ default = "not_found" =>
              call.responses = <<Response([kind |-> "not_found", id |-> 0], 404)>>

\* a registered default service answered a request every route declined
C5_Witness ==
    /\ subject = "Router"
    /\ Called
    /\ Len(services) >= 1
    /\ FirstAccepting(services, call.req) = 0
    /\ default = "custom"
    /\ call.invoked = <<DefaultTarget>>

\* C6: for an App on which default_resource was registered, a request that
\* matches none of the App's routes is handled by that default resource, not
\* by a built-in 404 response.
C6_AppDefaultResourceHandlesUnmatched ==
    (subject = "App" /\ Called /\ default = "Some"
        /\ FirstAccepting(services, call.req) = 0) =>
        /\ call.invoked = <<DefaultTarget>>
        /\ call.responses[1].by # BuiltinTarget

\* C7: if the build future of any slot (or of the Router's default) resolved
\* to an error, the next poll of the aggregate build returns an error, and the
\* build never yields a dispatch service, however many slots have resolved.
C7_BuildErrorAbortsAggregate ==
    /\ [][(subject \in Aggregates /\ Polled /\ SlotFailed)
            => (poll_result' = "Err" /\ built'.none)]_vars
    /\ [](subject \in Aggregates => (SlotFailed => built.none))
    /\ [][(subject \in Aggregates /\ poll_result = "Err")
            => (poll_result' = "Err" /\ built'.none)]_vars

\* the build failed on a poll although another slot had already been promoted
C7_Witness ==
    /\ subject \in Aggregates
    /\ poll_result = "Err"
    /\ SlotFailed
    /\ \E i \in 1..Len(fut) : fut[i].tag = "Service"

\* C8: when a route's handler returns an error, the outcome of the request is
\* the response rendered from that error, with its status; no service wrapper
\* between the handler and the application service reduces the error to a
\* contentless failure.
C8_HandlerErrorRendered ==
    (subject = "Route" /\ pipeline.stage = "done" /\ pipeline.handler_calls = 1
        /\ ~pipeline.handler.ok) =>
        pipeline.outcome = Ok(pipeline.handler.status)

\* C9: if extraction of the handler's arguments fails, the handler is never
\* invoked for that request and the outcome is a response built from the
\* extraction error, for RouteBuilder::to and for RouteBuilder::to_async.
C9_ExtractionErrorShortCircuits ==
    (subject = "Route" /\ pipeline.stage = "done" /\ ~pipeline.extract.ok) =>
        /\ pipeline.handler_calls = 0
        /\ pipeline.outcome = Ok(pipeline.extract.status)

\* C10: the App's factory_ref cell is empty until into_new_service, is
\* assigned by into_new_service only and never again, is assigned before any
\* build of the endpoint, and AppEndpoint.new_service on an empty cell panics.
C10_FactoryCellAssignedOnce ==
    /\ []((subject = "App" /\ phase = "Declared") => ~factory_ref.some)
    /\ [][factory_ref' # factory_ref
            => (~factory_ref.some /\ factory_ref'.some /\ subject = "App"
                /\ phase = "Declared" /\ phase' = "Factory"
                /\ factory_ref'.services = services)]_vars
    /\ []((subject = "App" /\ phase \in {"Building", "Assembled", "Failed"})
            => factory_ref.some)
    /\ [][(subject = "App" /\ ~factory_ref.some /\ phase' # phase
            /\ phase' # "Factory") => phase' = "Panicked"]_vars

\* the endpoint is being built from the table the cell was assigned
C10_Witness ==
    /\ subject = "App"
    /\ phase = "Building"
    /\ factory_ref.some
    /\ Len(fut) >= 1
    /\ Len(fut) = Len(factory_ref.services)

\* ---- properties of the filters ------------------------------------------
\* ResourceService.call was applied to a request
ResourceCalled == subject = "Resource" /\ call.responses # <<>>

\* every filter of route rt accepts req
AllFiltersAccept(rt, req) ==
    \A j \in 1..Len(rt.filters) : Filter_check(rt.filters[j], req).result

\* the routes of the Resource whose filters all accept req
AcceptingRoutes(req) ==
    {i \in 1..Len(services) : AllFiltersAccept(services[i], req)}

\* C11: a request for which a predicate registered with App::filter returns
\* false is not dispatched to any route service of that App.
C11_FilteredRequestNotDispatched ==
    (subject = "App" /\ Called
        /\ \E i \in 1..Len(filters) : ~Filter_check(filters[i], call.req).result) =>
        \A k \in 1..Len(call.invoked) : call.invoked[k].kind # "route"

\* C12: ResourceService.call offers the request to its routes in registration
\* order and invokes the first route all of whose filters accept it; a route
\* with a failing filter is never invoked; and when no route accepts, the
\* result is Unhandled, which renders as 404, not an error.
C12_FirstFullyAcceptingRouteInvoked ==
    ResourceCalled =>
        LET S == AcceptingRoutes(call.req)
        IN /\ \A k \in 1..Len(call.invoked) :
                 \E i \in S : call.invoked[k] = RouteTarget(services[i].id)
           /\ IF S = {}
              THEN /\ call.invoked = <<>>
                   /\ call.offered = [i \in 1..Len(services) |-> services[i].id]
                   /\ call.responses =
                          <<Response([kind |-> "unhandled", id |-> 0], 404)>>
              ELSE LET k == CHOOSE i \in S : \A j \in S : i <= j
                   IN /\ call.invoked = <<RouteTarget(services[k].id)>>
                      /\ call.offered = [i \in 1..k |-> services[i].id]
                      /\ call.responses = <<Response(RouteTarget(services[k].id), 200)>>

\* the first route passed its method filter and failed its header filter, and
\* the second route served the request
C12_Witness ==
    /\ ResourceCalled
    /\ Len(services) >= 2
    /\ Len(services[1].filters) = 2
    /\ Filter_check(services[1].filters[1], call.req).result
    /\ ~Filter_check(services[1].filters[2], call.req).result
    /\ call.invoked = <<RouteTarget(services[2].id)>>

\* the method a builder method of ResourceBuilder is named after
ViaMethod(via) ==
    CASE via = "get" -> "GET"
      [] via = "post" -> "POST"
      [] via = "put" -> "PUT"
      [] via = "delete" -> "DELETE"
      [] via = "head" -> "HEAD"

\* C13: a route registered with ResourceBuilder::post (put, delete, head) is
\* selected for a request if and only if the request's method is POST (PUT,
\* DELETE, HEAD) and the filters its closure attached accept the request.
C13_MethodRouteSelectedIffMethod ==
    (ResourceCalled /\ Len(services) >= 1
        /\ services[1].via \in {"post", "put", "delete", "head"}) =>
        (call.invoked = <<RouteTarget(services[1].id)>>
            <=> /\ call.req.method = ViaMethod(services[1].via)
                /\ \A j \in 2..Len(services[1].filters) :
                      Filter_check(services[1].filters[j], call.req).result)

\* C14: the Host(h) filter accepts a request if and only if the request's
\* Host is h.
C14_HostFilterAcceptsOwnHost ==
    (subject = "Filter" /\ checked.done /\ filter.kind = "Host") =>
        (checked.result <=> checked.req.host = filter.host)

\* index of the first child of the filter whose check gives `res` on req, or
\* the number of children when no child does
FirstChildGiving(res, req) ==
    LET S == {i \in 1..Len(filter.children) :
                 Filter_check(filter.children[i], req).result = res}
    IN IF S = {} THEN Len(filter.children)
       ELSE CHOOSE i \in S : \A j \in S : i <= j

\* C15: AllFilter.check is true iff every child's check is true, AnyFilter.check
\* iff some child's is, NotFilter.check iff its child's is not; All and Any
\* evaluate their children in insertion order, All none after the first false,
\* Any none after the first true.
C15_AllAnyNotSemantics ==
    /\ [](subject = "Filter" /\ checked.done /\ filter.kind = "All" =>
            /\ checked.result <=>
                 \A i \in 1..Len(filter.children) :
                     Filter_check(filter.children[i], checked.req).result
            /\ checked.evaluated =
                 [i \in 1..FirstChildGiving(FALSE, checked.req) |-> i])
    /\ [](subject = "Filter" /\ checked.done /\ filter.kind = "Any" =>
            /\ checked.result <=>
                 \E i \in 1..Len(filter.children) :
                     Filter_check(filter.children[i], checked.req).result
            /\ checked.evaluated =
                 [i \in 1..FirstChildGiving(TRUE, checked.req) |-> i])
    /\ [](subject = "Filter" /\ checked.done /\ filter.kind = "Not" =>
            checked.result = ~Filter_check(filter.children[1], checked.req).result)
    /\ [][(subject = "Filter" /\ filter.kind \in {"All", "Any"} /\ filter' # filter)
            => /\ filter'.kind = filter.kind
               /\ \E f \in LeafFilters :
                     filter'.children = Append(filter.children, f)]_vars

\* an All of two children stopped at its first child, which rejected
C15_Witness ==
    /\ subject = "Filter"
    /\ checked.done
    /\ filter.kind = "All"
    /\ Len(filter.children) = 2
    /\ Filter_check(filter.children[2], checked.req).result
    /\ checked.evaluated = <<1>>
    /\ ~checked.result

\* ---- the pattern matcher --------------------------------------------------
\* the pattern has answered is_match / match_with_params
IsMatchCalled == subject = "ResourcePattern" /\ matched.op = "is_match"
MatchWithParamsCalled ==
    subject = "ResourcePattern" /\ matched.op = "match_with_params"

\* the parameters of the stored template, in declaration order
DeclaredParams(t) == SelectSeq(t, LAMBDA x : x.kind = "param")
DeclaredNames(t) == [i \in 1..Len(DeclaredParams(t)) |-> DeclaredParams(t)[i].name]

\* the sub-pattern the template declares for the parameter called n
DeclaredSub(t, n) ==
    (CHOOSE x \in {t[i] : i \in 1..Len(t)} : x.kind = "param" /\ x.name = n).sub

\* ParamItem::UrlSegment(s, e) resolved against the path of the request
Resolve(param, path) == SubSeq(path, param.start + 1, param.end)

\* the path[plen..] the pattern is matched against
Rest == SubSeq(matched.path, matched.plen + 1, Len(matched.path))

\* p continues s only at a '/': p is s, or s ends in '/', or p has a '/'
\* right after s
AtBoundary(s, p) ==
    \/ p = s
    \/ /\ starts_with(p, s)
       /\ \/ (Len(s) >= 1 /\ s[Len(s)] = "/")
          \/ p[Len(s) + 1] = "/"

\* the elements of a pattern with each Var replaced by the text its
\* parameter resolves to
RECURSIVE Substituted(_, _, _, _)
Substituted(elements, params, path, i) ==
    IF i > Len(elements) THEN <<>>
    ELSE (IF elements[i].kind = "Str" THEN elements[i].s
          ELSE Resolve(params[CHOOSE j \in 1..Len(params) :
                                  params[j].name = elements[i].name], path))
         \o Substituted(elements, params, path, i + 1)

\* C16: a static pattern's is_match(p) is true if and only if p is exactly
\* the pattern's template string (the string ResourcePattern stores: new()
\* puts a '/' in front of a non-empty template that lacks one); a trailing
\* '/' makes a different path
C16_StaticMatchesExactlyTemplate ==
    (IsMatchCalled /\ pattern.tp = "Static")
        => (matched.result <=> matched.path = Literal(pattern.pattern))

\* static pattern '/a' has rejected '/a/'
C16_Witness ==
    /\ IsMatchCalled
    /\ pattern.tp = "Static"
    /\ Literal(pattern.pattern) = <<"/", "a">>
    /\ matched.path = <<"/", "a", "/">>
    /\ ~matched.result

\* C17: a prefix pattern's is_match(p) is true when p starts with the
\* pattern's literal at a '/'-boundary (or equals it) and false when p only
\* shares the literal without a boundary
C17_PrefixMatchesOnlyAtBoundary ==
    (IsMatchCalled /\ pattern.tp = "Prefix")
        => (matched.result <=> AtBoundary(Literal(pattern.pattern), matched.path))

\* C18: a prefix pattern's is_match(p) is true exactly when p begins with the
\* pattern's literal, whatever character follows it
C18_PrefixMatchesExactlyStartsWith ==
    (IsMatchCalled /\ pattern.tp = "Prefix")
        => (matched.result <=> starts_with(matched.path, Literal(pattern.pattern)))

\* prefix '/a' has accepted '/ab'
C18_Witness ==
    /\ IsMatchCalled
    /\ pattern.tp = "Prefix"
    /\ Literal(pattern.pattern) = <<"/", "a">>
    /\ matched.path = <<"/", "a", "b">>
    /\ matched.result

C20_ParamsSpanUnslicedPath ==
    (/\ MatchWithParamsCalled
     /\ pattern.tp = "Dynamic"
     /\ matched.plen <= Len(matched.path)
     /\ ~matched.panic)
        => /\ matched.result <=> is_match_Dynamic(pattern, Rest)
           /\ matched.result
                => /\ [i \in 1..Len(matched.params) |-> matched.params[i].name]
                          = DeclaredNames(pattern.pattern)
                   /\ \A i \in 1..Len(matched.params) :
                         /\ matched.plen <= matched.params[i].start
                         /\ matched.params[i].start <= matched.params[i].end
                         /\ matched.params[i].end <= Len(matched.path)
                   /\ \A i, j \in 1..Len(matched.params) :
                         i < j => matched.params[i].end <= matched.params[j].start
                   /\ LET text == Substituted(pattern.elements, matched.params,
                                              matched.path, 1)
                      IN IF pattern.anchored THEN text = Rest
                         ELSE starts_with(Rest, text)

\* a one-segment pattern has matched path 'b/a' from plen 1 on, its parameter
\* spanning the third character of the full path
C20_Witness ==
    /\ MatchWithParamsCalled
    /\ pattern.tp = "Dynamic"
    /\ matched.path = <<"b", "/", "a">>
    /\ matched.plen = 1
    /\ matched.result
    /\ Len(matched.params) = 1
    /\ matched.params[1].start = 2
    /\ matched.params[1].end = 3
    /\ Resolve(matched.params[1], matched.path) = <<"a">>

\* the pattern has answered match_prefix_with_params
MatchPrefixCalled ==
    subject = "ResourcePattern" /\ matched.op = "match_prefix_with_params"

\* the text v is one a segment with sub-pattern sub stands for
SegmentText(sub, v) ==
    CASE sub = "none" -> Len(v) >= 1 /\ \A j \in 1..Len(v) : v[j] # "/"
      [] sub = ".*" -> TRUE
      [] sub = "(a)" -> v = <<"a">>
      [] sub = "a)(a" -> v = <<"a", "a">>
      [] OTHER -> FALSE

\* the whole of the text p is the template t from item i on: every literal
\* character is itself and every segment is some text it stands for
RECURSIVE TemplateMatches(_, _, _)
TemplateMatches(t, i, p) ==
    IF i > Len(t) THEN p = <<>>
    ELSE IF t[i].kind = "char"
    THEN p # <<>> /\ p[1] = t[i].c /\ TemplateMatches(t, i + 1, Tail(p))
    ELSE \E n \in 0..Len(p) :
            /\ SegmentText(t[i].sub, SubSeq(p, 1, n))
            /\ TemplateMatches(t, i + 1, SubSeq(p, n + 1, Len(p)))

\* C21: a dynamic pattern compiled for exact matching accepts a path exactly
\* when the entire path matches the template; one compiled for prefix
\* matching accepts a path exactly when some leading portion of it matches
\* the template; both match from the first character of the path
C21_ExactWholePathPrefixLeadingPortion ==
    (IsMatchCalled /\ pattern.tp = "Dynamic")
        => IF pattern.anchored
           THEN matched.result <=> TemplateMatches(pattern.pattern, 1, matched.path)
           ELSE matched.result
                    <=> \E k \in 0..Len(matched.path) :
                           TemplateMatches(pattern.pattern, 1,
                                           SubSeq(matched.path, 1, k))

\* the exact pattern '/{x}' has rejected '/a/'
C21_Witness ==
    /\ IsMatchCalled
    /\ pattern.tp = "Dynamic"
    /\ pattern.anchored
    /\ pattern.pattern = <<TemplateChar("/"), TemplateParam(1, "none")>>
    /\ matched.path = <<"/", "a", "/">>
    /\ ~matched.result

\* C22: after a successful match_with_params or match_prefix_with_params every
\* parameter span satisfies start <= end <= length of the request path, and
\* the tail cursor is <= the length of the request path
C22_SpansAndTailInsidePath ==
    ((MatchWithParamsCalled \/ MatchPrefixCalled) /\ matched.result)
        => /\ \A i \in 1..Len(matched.params) :
                 /\ matched.params[i].start <= matched.params[i].end
                 /\ matched.params[i].end <= Len(matched.path)
           /\ matched.tail <= Len(matched.path)

\* C23: every match operation gives on an empty remaining path the verdict it
\* gives on the path '/'
C23_EmptyPathTreatedAsSlash ==
    /\ (IsMatchCalled /\ matched.path = <<>>)
          => (matched.result <=> ResourcePattern_is_match(pattern, <<"/">>))
    /\ (MatchWithParamsCalled /\ matched.plen = Len(matched.path))
          => (matched.result
                 <=> ResourcePattern_match_with_params(pattern, <<"/">>, 0).result)
    /\ (MatchPrefixCalled /\ matched.plen = Len(matched.path))
          => (matched.result
                 <=> ResourcePattern_match_prefix_with_params(pattern, <<"/">>,
                                                              0).result)

\* C24: match_with_params and match_prefix_with_params return a match or a
\* no-match without aborting, for every compiled pattern, path and plen, and
\* a plen beyond the end of the path yields no-match
C24_MatchNeverAborts ==
    (MatchWithParamsCalled \/ MatchPrefixCalled)
        => /\ ~matched.panic
           /\ matched.plen > Len(matched.path) => ~matched.result

\* a template is malformed: a '{' is not closed, or a custom sub-pattern is
\* not a regular expression
Malformed(t) ==
    \E i \in 1..Len(t) :
        \/ t[i].kind = "open"
        \/ t[i].kind = "param" /\ t[i].sub \in {"(", "a)(a"}

\* C25: compiling a malformed template panics at construction and yields no
\* pattern, so that no match on it can fail at request time
C25_MalformedTemplatePanicsAtConstruction ==
    (subject = "ResourcePattern" /\ pattern.tp # "None"
        /\ Malformed(pattern.pattern))
        => pattern.tp = "Panic" /\ matched = NoMatch

\* the unprocessed tail of the parameters: path[tail..]
Unprocessed == SubSeq(matched.path, matched.tail + 1, Len(matched.path))

AppStateInv(a) ==
    /\ a.fut = "err" => ~a.service /\ a.build # "Ready"
    /\ a.kind = "Fn" => a.constructs = a.builds
    /\ a.build = "Ready" => a.service /\ a.fut = "ok"
    /\ a.converted > 0 => a.service /\ a.fut = "ok"

\* C26: when the constructor given to App::with_state_factory has failed, a
\* poll of the build answers an error and no state service exists; with a
\* state factory the constructor has run exactly once for each build; and a
\* request is converted only when the state service exists, built from a
\* constructor that succeeded.
C26_StateFactoryFailureFailsBuild ==
    [][/\ AppStateInv(app_state')
       /\ (/\ app_state.fut = "err"
           /\ app_state'.builds = app_state.builds
           /\ app_state'.build # app_state.build)
            => app_state'.build = "Err"]_vars

C26_Witness ==
    /\ app_state.kind = "Fn"
    /\ app_state.fut = "err"
    /\ app_state.build = "Err"
    /\ app_state.builds = app_state.constructs

\* ---- C27 ------------------------------------------------------------------
HeadersSatisfied(r, req) ==
    \A i \in 1..Len(r.headers) : r.headers[i] = req.header

\* C27: FramedRouteService.handle returns Ok if and only if the method set is
\* empty or contains the request's method, every registered header predicate
\* is satisfied by the request, and the pattern matches the request path.
C27_FramedRouteChecksMethodsHeadersPattern ==
    framed_route.handled.done =>
        (framed_route.handled.ok <=>
            /\ Len(framed_route.methods) = 0
                  \/ contains(framed_route.methods, framed_route.handled.req.method)
            /\ HeadersSatisfied(framed_route, framed_route.handled.req)
            /\ ResourcePattern_match_with_params(
                   framed_route.pattern, framed_route.handled.req.path, 0).result)

\* ---- C28 ------------------------------------------------------------------
\* C28: a call through ErrorHandlers completes without aborting, with the
\* handler's result when the response status has a registered handler and
\* with the response unchanged otherwise.
C28_ErrorHandlersReplaceOrPassThrough ==
    errhandlers.call.done =>
        /\ ~errhandlers.call.panic
        /\ errhandlers.call.by =
              IF errhandlers.call.status \in errhandlers.handlers
              THEN "handler" ELSE "unchanged"

\* ---- C29 ------------------------------------------------------------------
\* C29: while the boxed future a handler returned has not been polled to its
\* result there is no response; once it has, a value gives the response of
\* the value's responder, run once, and an error gives that error with the
\* responder never run.
C29_BoxedFutureAwaitedThenResponds ==
    /\ boxed.stage \in {"idle", "pending", "resolved"} =>
          boxed.outcome = NoResult /\ boxed.responder_runs = 0
    /\ (boxed.stage = "done" /\ boxed.result.ok) =>
          /\ boxed.outcome = ResponseFuture_poll(Result_respond_to(boxed.result.value))
          /\ boxed.responder_runs = 1
    /\ (boxed.stage = "done" /\ ~boxed.result.ok) =>
          /\ boxed.outcome = Err(boxed.result.status)
          /\ boxed.responder_runs = 0

C29_Witness ==
    /\ boxed.stage = "done"
    /\ ~boxed.result.ok
    /\ boxed.outcome = Err(boxed.result.status)
    /\ boxed.last_poll = "Ready"

\* ---- C37 ------------------------------------------------------------------
\* C37: after a successful match_with_params on a pattern compiled for exact
\* matching, static or dynamic, the unprocessed tail of the match context is
\* empty.
C37_ExactMatchLeavesNoTail ==
    (/\ MatchWithParamsCalled
     /\ matched.result
     /\ \/ pattern.tp = "Static"
        \/ pattern.tp = "Dynamic" /\ pattern.anchored)
        => Unprocessed = <<>>

\* ---- C38 ------------------------------------------------------------------
\* the offsets in the request path of the groups the expression captured
TrueSpans ==
    LET c == Regex_captures(pattern.re, pattern.anchored, Rest)
    IN [i \in 1..Len(c.groups) |->
           [start |-> matched.plen + c.groups[i].start,
            end |-> matched.plen + c.groups[i].end]]

\* C38: the spans and the tail recorded by match_with_params and
\* match_prefix_with_params on a dynamic pattern are the true offsets in the
\* request path, for a path of any length.
C38_OffsetsAreTrueByteOffsets ==
    (/\ MatchWithParamsCalled \/ MatchPrefixCalled
     /\ pattern.tp = "Dynamic"
     /\ matched.result)
        => /\ \A i \in 1..Len(matched.params) :
                 /\ matched.params[i].start = TrueSpans[i].start
                 /\ matched.params[i].end = TrueSpans[i].end
           /\ MatchWithParamsCalled => matched.tail = Len(matched.path)
           /\ MatchPrefixCalled =>
                 matched.tail = TrueSpans[Len(TrueSpans)].end + pattern.len

\* ---- C31 ------------------------------------------------------------------
Builders == {"Router", "FramedApp", "Resource", "App"}

\* the loop of the aggregate's poll, run on the slots as they are now
PollLoop ==
    CASE subject = "Router" -> RouterFut_poll_items(fut, inner, 1, TRUE)
      [] subject = "FramedApp" -> CreateService_poll_items(fut, inner, 1, TRUE)
      [] subject = "Resource" ->
            CreateResourceService_poll_items(fut, inner, 1, TRUE)
      [] subject = "App" -> CreateAppService_poll_items(fut, inner, 1, TRUE)

\* the slots that are still futures, in order
Unresolved(f) ==
    SelectSeq([i \in 1..Len(f) |-> i], LAMBDA i : f[i].tag = "Future")

\* C31: a poll of an aggregate build that does not fail polls every slot
\* that is still a future exactly once, in order, and no slot that is
\* already a service; a slot that has become a service stays one while the
\* build goes on (and so does the Router's default), so the number of
\* unresolved slots never increases.
C31_EachUnresolvedSlotPolledOnce ==
    /\ []((subject \in Builders /\ phase = "Building")
            => LET r == PollLoop
               IN ~r.err
                     => /\ r.polled = Unresolved(fut)
                        /\ Len(r.fut) = Len(fut)
                        /\ \A i \in 1..Len(fut) :
                              fut[i].tag = "Service" => r.fut[i] = fut[i])
    /\ [][(subject \in Builders /\ phase = "Building" /\ phase' = "Building")
            => /\ Len(fut') = Len(fut)
               /\ \A i \in 1..Len(fut) :
                     fut[i].tag = "Service" => fut'[i].tag = "Service"
               /\ Len(Unresolved(fut')) <= Len(Unresolved(fut))
               /\ (subject = "Router" /\ fut_default # "None")
                     => fut_default' = fut_default]_vars

\* a build with one slot promoted by an earlier poll and one, by now
\* resolved, that the next poll alone will visit
C31_Witness ==
    /\ subject = "FramedApp"
    /\ phase = "Building"
    /\ poll_result = "NotReady"
    /\ Len(fut) = 2
    /\ fut[1].tag = "Service"
    /\ fut[2].tag = "Future"
    /\ inner[2] = "ready"
    /\ PollLoop.polled = <<2>>

\* ---- C34 ------------------------------------------------------------------
\* C34: when every slot's build future (and the default's) resolves to a
\* service and the build is polled whenever a poll can make progress, a
\* build that has started ends with Ready and the assembled service; and a
\* poll made once every slot has resolved returns Ready.
C34_BuildEventuallyReady ==
    /\ (phase = "Building") ~> (poll_result = "Ready" /\ ~built.none)
    /\ [][(subject \in LiveSubjects /\ Polled /\ AllResolved)
            => (poll_result' = "Ready" /\ ~built'.none)]_vars

\* a build of two slots that was not ready at a poll and has ended Ready
C34_Witness ==
    /\ subject \in LiveSubjects
    /\ phase = "Assembled"
    /\ poll_result = "Ready"
    /\ Len(built.services) = 2
    /\ AllResolved

\* ---- C33 ------------------------------------------------------------------
\* the route services that were offered the request and declined it
Declined(c, svcs, r) ==
    {svcs[i].id : i \in {j \in 1..Len(svcs) :
                            /\ \E k \in 1..Len(c.offered) : c.offered[k] = svcs[j].id
                            /\ r \notin svcs[j].accepts}}

\* C33: in RouterService.call and FramedAppService.call a route service
\* that declines hands back the request it was given and its handler is not
\* invoked: the request that reaches the accepting route, or the fallback
\* when every route declines, is the request passed to call.
C33_DeclinedRequestHandedBack ==
    [][\A r \in Requests :
          (RouterService_call(r) \/ FramedAppService_call(r))
             => /\ call'.req = r
                /\ \A id \in Declined(call', built.services, r) :
                      \A k \in 1..Len(call'.invoked) :
                         call'.invoked[k] # RouteTarget(id)
                /\ \A k \in 1..Len(call'.invoked) :
                      call'.invoked[k].kind = "route"
                         => \E i \in 1..Len(built.services) :
                               /\ built.services[i].id = call'.invoked[k].id
                               /\ r \in built.services[i].accepts]_vars

\* the first route declined the request and the second one took it
C33_Witness ==
    /\ subject \in Dispatchers
    /\ Called
    /\ Len(call.offered) = 2
    /\ call.req \notin built.services[1].accepts
    /\ call.invoked = <<RouteTarget(built.services[2].id)>>

\* ---- C35 ------------------------------------------------------------------
\* C35: once an App has been converted into a factory, if it has a default
\* resource every resource registered on it holds a default (its own, or the
\* App's when it had none), and if it has none no resource holds the App's.
C35_ResourcesReceiveAppDefault ==
    (subject = "App" /\ factory_ref.some) =>
        /\ default # "None" =>
              \A i \in 1..Len(defaults) : defaults[i].value \in {"own", "app"}
        /\ default = "None" =>
              \A i \in 1..Len(defaults) : defaults[i].value # "app"

\* ---- C36 ------------------------------------------------------------------
\* C36: App::middleware leaves the registered services, the filters, the
\* state, the default resource and the default cells collected so far as
\* they were: only the endpoint changes.
C36_MiddlewareChangesOnlyEndpoint ==
    [][App_middleware =>
          /\ services' = services
          /\ filters' = filters
          /\ app_state' = app_state
          /\ default' = default
          /\ defaults' = defaults
          /\ factory_ref' = factory_ref]_vars

\* ---- C32 ------------------------------------------------------------------
\* C32: a RouterService, ResourceService or AppService answers Ready from
\* poll_ready only when every route service it may dispatch to, and the
\* default service, has answered Ready.
C32_ReadyOnlyWhenInnerReady ==
    ready.answer = "Ready" =>
        /\ \A i \in 1..Len(ready.inner) : ready.inner[i] = "Ready"
        /\ ready.default = "Ready"

====
